---- MODULE Spec2Model ----
(***************************************************************************)
(* Velocity gateway: the load-balanced, failover-capable proxy dispatcher  *)
(* of internal/proxy/proxy.go (pool construction, round-robin selection,   *)
(* per-attempt failover, per-target outcome counters) together with the    *)
(* retriability table of pkg/errors/errors.go.                             *)
(***************************************************************************)
EXTENDS Integers, Sequences, FiniteSets, TLC

(***************************************************************************)
(* Bounds of the model.                                                    *)
(***************************************************************************)
\* number of inbound requests handled by one Proxy instance
MaxRequests == 2
\* largest pool the dispatcher specifications are started with
MaxPool == 2
\* longest target list handed to New in the construction specification
MaxTargets == 3
\* number of GatewayError objects the allocator hands out
MaxErrObjs == 2
\* number of calls of errors.New
MaxErrNew == 3
\* bw.bufferSize in bytes, scaled down from the default of 4096
BufferSize == 4
\* number of records each goroutine logs
MaxLogCalls == 2

(***************************************************************************)
(* net/http status codes used by the dispatcher.                           *)
(***************************************************************************)
StatusBadGateway == 502

(***************************************************************************)
(* pkg/errors: error codes and the retriability verdict.                   *)
(***************************************************************************)
CodeUpstreamError == "UPSTREAM_ERROR"
CodeUpstreamTimeout == "UPSTREAM_TIMEOUT"
CodeUpstreamUnavailable == "UPSTREAM_UNAVAILABLE"
CodeUpstreamOverloaded == "UPSTREAM_OVERLOADED"
CodeLoadBalancerError == "LB_ALGORITHM_ERROR"
CodeHealthCheckTimeout == "HEALTH_CHECK_TIMEOUT"
CodeInternalError == "GATEWAY_INTERNAL_ERROR"
CodeConfigurationError == "GATEWAY_CONFIG_ERROR"
CodeInitializationError == "GATEWAY_INIT_ERROR"
CodeShutdownError == "GATEWAY_SHUTDOWN_ERROR"
CodeNoHealthyTargets == "LB_NO_HEALTHY_TARGETS"
CodeRoutingError == "ROUTING_ERROR"
CodeCircuitBreakerOpen == "CIRCUIT_BREAKER_OPEN"
CodeUpstreamProtocol == "UPSTREAM_PROTOCOL_ERROR"
CodeHealthCheckFailed == "HEALTH_CHECK_FAILED"
CodeTargetUnhealthy == "TARGET_UNHEALTHY"
CodeBadRequest == "CLIENT_BAD_REQUEST"
CodeUnauthorized == "CLIENT_UNAUTHORIZED"
CodeForbidden == "CLIENT_FORBIDDEN"
CodeNotFound == "CLIENT_NOT_FOUND"
CodeMethodNotAllowed == "CLIENT_METHOD_NOT_ALLOWED"
CodeRequestTimeout == "CLIENT_REQUEST_TIMEOUT"
CodeRequestTooLarge == "CLIENT_REQUEST_TOO_LARGE"
CodeTooManyRequests == "CLIENT_TOO_MANY_REQUESTS"
CodeInvalidHeaders == "CLIENT_INVALID_HEADERS"
CodeRateLimitExceeded == "RATE_LIMIT_EXCEEDED"
CodeQuotaExceeded == "QUOTA_EXCEEDED"
CodeInvalidToken == "AUTH_INVALID_TOKEN"
CodeTokenExpired == "AUTH_TOKEN_EXPIRED"
CodeInsufficientScope == "AUTH_INSUFFICIENT_SCOPE"

\* the declared codes by the groups of the const block (lines 52-97)
GatewayCodes ==
  {CodeInternalError, CodeConfigurationError, CodeInitializationError,
   CodeShutdownError}
RoutingCodes ==
  {CodeNoHealthyTargets, CodeLoadBalancerError, CodeRoutingError,
   CodeCircuitBreakerOpen}
UpstreamCodes ==
  {CodeUpstreamError, CodeUpstreamTimeout, CodeUpstreamUnavailable,
   CodeUpstreamOverloaded, CodeUpstreamProtocol}
HealthCheckCodes ==
  {CodeHealthCheckFailed, CodeTargetUnhealthy, CodeHealthCheckTimeout}
ClientCodes ==
  {CodeBadRequest, CodeUnauthorized, CodeForbidden, CodeNotFound,
   CodeMethodNotAllowed, CodeRequestTimeout, CodeRequestTooLarge,
   CodeTooManyRequests, CodeInvalidHeaders}
RateLimitCodes == {CodeRateLimitExceeded, CodeQuotaExceeded}
AuthCodes == {CodeInvalidToken, CodeTokenExpired, CodeInsufficientScope}

\* the codes of the 4xx, 429 and 401/403 classes
ClientFaultCodes == ClientCodes \cup RateLimitCodes \cup AuthCodes

\* ErrorCode is a string type: a caller may pass a code that is not declared
CodeUndeclared == "CUSTOM_ERROR"

ErrorCodes ==
  GatewayCodes \cup RoutingCodes \cup UpstreamCodes \cup HealthCheckCodes
    \cup ClientCodes \cup RateLimitCodes \cup AuthCodes \cup {CodeUndeclared}

\* ErrorSeverity, an iota enumeration
SeverityDebug == 0
SeverityInfo == 1
SeverityWarn == 2
SeverityError == 3
SeverityCritical == 4
SeverityFatal == 5

\* getDefaultStatusCode: a switch on the code, default 500
getDefaultStatusCode_NoHealthy503(code) ==
  CASE code \in {CodeBadRequest, CodeInvalidHeaders} -> 400
    [] code \in {CodeUnauthorized, CodeInvalidToken, CodeTokenExpired} -> 401
    [] code \in {CodeForbidden, CodeInsufficientScope} -> 403
    [] code = CodeNotFound -> 404
    [] code = CodeMethodNotAllowed -> 405
    [] code = CodeRequestTimeout -> 408
    [] code = CodeRequestTooLarge -> 413
    [] code \in {CodeTooManyRequests, CodeRateLimitExceeded,
                 CodeQuotaExceeded} -> 429
    [] code \in {CodeUpstreamError, CodeUpstreamTimeout,
                 CodeUpstreamUnavailable, CodeCircuitBreakerOpen} -> 502
    [] code \in {CodeLoadBalancerError, CodeHealthCheckFailed,
                 CodeTargetUnhealthy, CodeUpstreamOverloaded,
                 CodeHealthCheckTimeout, CodeNoHealthyTargets} -> 503
    [] OTHER -> 500

getDefaultStatusCode(code) ==
  CASE code \in {CodeBadRequest, CodeInvalidHeaders} -> 400
    [] code \in {CodeUnauthorized, CodeInvalidToken, CodeTokenExpired} -> 401
    [] code \in {CodeForbidden, CodeInsufficientScope} -> 403
    [] code = CodeNotFound -> 404
    [] code = CodeMethodNotAllowed -> 405
    [] code = CodeRequestTimeout -> 408
    [] code = CodeRequestTooLarge -> 413
    [] code \in {CodeTooManyRequests, CodeRateLimitExceeded,
                 CodeQuotaExceeded} -> 429
    [] code \in {CodeUpstreamError, CodeUpstreamTimeout,
                 CodeUpstreamUnavailable, CodeNoHealthyTargets,
                 CodeCircuitBreakerOpen} -> StatusBadGateway
    [] code \in {CodeLoadBalancerError, CodeHealthCheckFailed,
                 CodeTargetUnhealthy, CodeUpstreamOverloaded,
                 CodeHealthCheckTimeout} -> 503
    [] OTHER -> 500

\* getDefaultSeverity: a switch on the code, default SeverityError
getDefaultSeverity(code) ==
  CASE code \in {CodeInternalError, CodeInitializationError,
                 CodeShutdownError} -> SeverityFatal
    [] code \in {CodeConfigurationError, CodeNoHealthyTargets}
         -> SeverityCritical
    [] code \in {CodeUpstreamError, CodeLoadBalancerError,
                 CodeHealthCheckFailed} -> SeverityError
    [] code \in {CodeUpstreamTimeout, CodeTargetUnhealthy} -> SeverityWarn
    [] code \in {CodeBadRequest, CodeUnauthorized, CodeForbidden,
                 CodeNotFound} -> SeverityInfo
    [] OTHER -> SeverityError

\* GatewayError.GetRetryDelay in milliseconds: a switch on the code,
\* default one second
GetRetryDelay(code) ==
  CASE code = CodeUpstreamTimeout -> 1000
    [] code = CodeUpstreamUnavailable -> 2000
    [] code = CodeUpstreamOverloaded -> 5000
    [] code = CodeTooManyRequests -> 10000
    [] code = CodeHealthCheckTimeout -> 500
    [] OTHER -> 1000

\* GatewayError.IsRetriable: a switch on the code, default false
IsRetriable(code) ==
  code \in {CodeUpstreamTimeout, CodeUpstreamUnavailable,
            CodeUpstreamOverloaded, CodeLoadBalancerError,
            CodeHealthCheckTimeout}

\* GatewayError.IsTemporary: a switch on the code, default false
IsTemporary(code) ==
  code \in {CodeUpstreamTimeout, CodeUpstreamUnavailable,
            CodeUpstreamOverloaded, CodeHealthCheckTimeout,
            CodeLoadBalancerError, CodeTooManyRequests}

\* GatewayError.ShouldRetry: e.IsTemporary() && e.Severity <= SeverityWarn
ShouldRetry(code, severity) == IsTemporary(code) /\ severity <= SeverityWarn

\* The classes a transport-level failure of one forwarding attempt falls in:
\* errors.UpstreamTimeout (retriable) and errors.UpstreamError (terminal).
TransportErrorCodes == {CodeUpstreamTimeout, CodeUpstreamError}

(***************************************************************************)
(* net/url.Parse on the target URLs the model uses.  A URL without "://"   *)
(* parses as a bare path (empty scheme and host); a URL whose first        *)
(* segment starts with a colon is rejected ("missing protocol scheme").    *)
(***************************************************************************)
urlParse(s) ==
  CASE s = "http://a"  -> [err |-> FALSE, Scheme |-> "http",  Host |-> "a"]
    [] s = "https://b" -> [err |-> FALSE, Scheme |-> "https", Host |-> "b"]
    [] s = "http://c"  -> [err |-> FALSE, Scheme |-> "http",  Host |-> "c"]
    [] s = "https://d" -> [err |-> FALSE, Scheme |-> "https", Host |-> "d"]
    [] s = "http://e"  -> [err |-> FALSE, Scheme |-> "http",  Host |-> "e"]
    [] s = "ftp://f"   -> [err |-> FALSE, Scheme |-> "ftp",   Host |-> "f"]
    [] s = "http://localhost:3000"
         -> [err |-> FALSE, Scheme |-> "http", Host |-> "localhost:3000"]
    [] s = "g"         -> [err |-> FALSE, Scheme |-> "",      Host |-> ""]
    [] s = ""          -> [err |-> FALSE, Scheme |-> "",      Host |-> ""]
    [] OTHER           -> [err |-> TRUE,  Scheme |-> "",      Host |-> ""]

\* config.TargetConfig as YAML decodes an entry that gives url and enabled:
\* the fields proxy.New reads, and the ones it does not at their zero value
TargetConfig(u, en) ==
  [URL |-> u, Enabled |-> en, Weight |-> 0, MaxConnections |-> 0]

\* config.DefaultConfig lines 253-260: the default target list
DefaultTargets ==
  <<[URL |-> "http://localhost:3000", Enabled |-> TRUE, Weight |-> 100,
     MaxConnections |-> 0]>>

\* TargetConfig.Validate: "" stands for a nil error
TargetValidate_AnyScheme(t) ==
  IF t.URL = "" THEN "URL is required"
  ELSE IF urlParse(t.URL).err THEN "invalid URL"
  ELSE IF t.Weight < 0 \/ t.Weight > 100
       THEN "weight must be between 0 and 100"
  ELSE IF t.MaxConnections < 0 THEN "max_connections must be non-negative"
  ELSE ""

TargetValidate(t) ==
  IF t.URL = "" THEN "URL is required"
  ELSE IF urlParse(t.URL).err THEN "invalid URL"
  ELSE IF urlParse(t.URL).Scheme \notin {"http", "https"}
       THEN "URL scheme must be http or https"
  ELSE IF t.Weight < 0 \/ t.Weight > 100
       THEN "weight must be between 0 and 100"
  ELSE IF t.MaxConnections < 0 THEN "max_connections must be non-negative"
  ELSE ""

\* Config.Validate lines 310-327, the checks on c.Targets
ValidateTargets(ts) ==
  IF Len(ts) = 0 THEN "at least one target must be configured"
  ELSE IF \E i \in 1..Len(ts) : TargetValidate(ts[i]) # ""
       THEN "target invalid"
  ELSE IF \A i \in 1..Len(ts) : ~ts[i].Enabled
       THEN "at least one target must be enabled"
  ELSE ""

\* ServerConfig.Validate; durations are in seconds
ServerValidate(sv) ==
  IF sv.Host = "" THEN "host is required"
  ELSE IF sv.Port < 1 \/ sv.Port > 65535
       THEN "port must be between 1 and 65535"
  ELSE IF sv.ReadTimeout < 0 THEN "read_timeout must be positive"
  ELSE IF sv.WriteTimeout < 0 THEN "write_timeout must be positive"
  ELSE ""

\* LoadBalancingConfig.Validate: the validAlgorithms map
ValidAlgorithms ==
  {"round_robin", "weighted_round_robin", "least_connections", "ip_hash"}

LoadBalancingValidate(lb) ==
  IF lb.Algorithm \notin ValidAlgorithms
  THEN "unsupported load balancing algorithm"
  ELSE ""

\* HealthCheckConfig.Validate: nothing is checked unless hc.Enabled
HealthCheckValidate_Always(hc) ==
  IF hc.Interval <= 0 THEN "health check interval must be positive"
  ELSE IF hc.Timeout <= 0 THEN "health check timeout must be positive"
  ELSE IF hc.Timeout >= hc.Interval
       THEN "health check timeout must be less than interval"
  ELSE IF hc.UnhealthyThreshold < 1
       THEN "unhealthy threshold must be at least 1"
  ELSE IF hc.HealthyThreshold < 1
       THEN "healthy threshold must be at least 1"
  ELSE ""

HealthCheckValidate(hc) ==
  IF ~hc.Enabled THEN ""
  ELSE IF hc.Interval <= 0 THEN "health check interval must be positive"
  ELSE IF hc.Timeout <= 0 THEN "health check timeout must be positive"
  ELSE IF hc.Timeout >= hc.Interval
       THEN "health check timeout must be less than interval"
  ELSE IF hc.UnhealthyThreshold < 1
       THEN "unhealthy threshold must be at least 1"
  ELSE IF hc.HealthyThreshold < 1
       THEN "healthy threshold must be at least 1"
  ELSE ""

\* Config.Validate (types.go lines 304-340): the sections in the order they
\* are checked, the first error returned
ConfigValidate(c) ==
  IF ServerValidate(c.Server) # "" THEN "server configuration invalid"
  ELSE IF ValidateTargets(c.Targets) # "" THEN ValidateTargets(c.Targets)
  ELSE IF LoadBalancingValidate(c.LoadBalancing) # ""
       THEN "load balancing configuration invalid"
  ELSE IF HealthCheckValidate(c.HealthCheck) # ""
       THEN "health check configuration invalid"
  ELSE ""

\* config.DefaultConfig (types.go lines 244-288), the fields Validate and
\* the loader read
DefaultConfig ==
  [Server |-> [Host |-> "0.0.0.0", Port |-> 8080, ReadTimeout |-> 30,
               WriteTimeout |-> 30],
   Targets |-> DefaultTargets,
   LoadBalancing |-> [Algorithm |-> "round_robin"],
   HealthCheck |-> [Enabled |-> TRUE, Interval |-> 30, Timeout |-> 5,
                    UnhealthyThreshold |-> 3, HealthyThreshold |-> 2],
   Logging |-> [Level |-> "info"]]

(***************************************************************************)
(* The Loader (unnamed/part_003).  A file gives each key at most once (the *)
(* empty list is an absent key); os.Getenv returns "" for a variable that  *)
(* is not set.                                                             *)
(***************************************************************************)
\* fmt.Sscanf(port, "%d", &portInt): scans an optionally signed decimal
\* prefix and stops where the format ends; input after the number is not
\* looked at, input that does not start with a number is an error
SscanfInt(str) ==
  CASE str = "9090"  -> [err |-> FALSE, n |-> 9090]
    [] str = "0"     -> [err |-> FALSE, n |-> 0]
    [] str = "70000" -> [err |-> FALSE, n |-> 70000]
    [] str = "9090x" -> [err |-> FALSE, n |-> 9090]
    [] OTHER         -> [err |-> TRUE, n |-> 0]

\* strings.ToLower
ToLower(str) ==
  CASE str = "DEBUG" -> "debug"
    [] str = "OFF"   -> "off"
    [] OTHER         -> str

\* yaml.Unmarshal(data, config): the keys of the document written over
\* the configuration it is handed
Unmarshal(f, c) ==
  [c EXCEPT
     !.Server.Host = IF f.Host = <<>> THEN @ ELSE f.Host[1],
     !.Server.Port = IF f.Port = <<>> THEN @ ELSE f.Port[1],
     !.Logging.Level = IF f.Level = <<>> THEN @ ELSE f.Level[1],
     !.HealthCheck.Enabled =
        IF f.HealthCheckEnabled = <<>> THEN @ ELSE f.HealthCheckEnabled[1]]

\* Loader.applyEnvironmentOverrides lines 180-243, with LOGGING_FORMAT and
\* LOAD_BALANCING_ALGORITHM not set: the first error returned
applyEnvironmentOverrides(c, env) ==
  LET host == env.SERVER_HOST
      port == env.SERVER_PORT
      level == env.LOGGING_LEVEL
      enabled == env.HEALTH_CHECK_ENABLED
      c1 == IF host # "" THEN [c EXCEPT !.Server.Host = host] ELSE c
      c2 == IF port # "" THEN [c1 EXCEPT !.Server.Port = SscanfInt(port).n]
            ELSE c1
      c3 == IF level # "" THEN [c2 EXCEPT !.Logging.Level = ToLower(level)]
            ELSE c2
      c4 == IF enabled = "" THEN c3
            ELSE [c3 EXCEPT !.HealthCheck.Enabled =
                    ToLower(enabled) \in {"true", "1", "yes", "on"}]
  IN
  IF port # "" /\ SscanfInt(port).err
  THEN [err |-> "invalid SERVER_PORT value", cfg |-> c]
  ELSE IF level # ""
          /\ ToLower(level) \notin {"debug", "info", "warn", "error", "fatal"}
  THEN [err |-> "invalid LOGGING_LEVEL value", cfg |-> c]
  ELSE IF enabled # ""
          /\ ToLower(enabled) \notin {"true", "1", "yes", "on",
                                       "false", "0", "no", "off"}
  THEN [err |-> "invalid HEALTH_CHECK_ENABLED value", cfg |-> c]
  ELSE [err |-> "", cfg |-> c4]

\* Loader.LoadDefault lines 120-132 and the tail of Loader.LoadFromFile
\* (lines 100-108): overrides, then validation; an error returns no Config
OverrideAndValidate(c, env) ==
  LET o == applyEnvironmentOverrides(c, env) IN
  IF o.err # ""
  THEN [err |-> "failed to apply environment overrides", cfg |-> <<>>]
  ELSE IF ConfigValidate(o.cfg) # ""
  THEN [err |-> "configuration validation failed", cfg |-> <<>>]
  ELSE [err |-> "", cfg |-> <<o.cfg>>]

LoaderLoadDefault(env) == OverrideAndValidate(DefaultConfig, env)

\* Loader.LoadFromFile lines 80-111
LoaderLoadFromFile(f, env) ==
  IF f.status = "absent"
  THEN [err |-> "configuration file not found", cfg |-> <<>>]
  ELSE IF f.status = "unreadable"
  THEN [err |-> "failed to read configuration file", cfg |-> <<>>]
  ELSE IF f.status = "malformed"
  THEN [err |-> "failed to parse YAML configuration", cfg |-> <<>>]
  ELSE OverrideAndValidate(Unmarshal(f, DefaultConfig), env)

\* config.LoadFromFile (config.go lines 106-118) on a file that exists: the
\* defaults, over which the YAML document is decoded; a document without a
\* targets key leaves the default target list, one with the key replaces
\* it.  Nothing is validated.
LoadFromFile(f) ==
  IF f.status = "unloadable" THEN [err |-> TRUE, Targets |-> <<>>]
  ELSE [err |-> FALSE,
        Targets |-> IF f.hasTargets THEN f.targets ELSE DefaultTargets]

\* proxy.TargetStats, zero value
ZeroStats == [Requests |-> 0, Successes |-> 0, Failures |-> 0]

(***************************************************************************)
(* proxy.New, lines 104-119: the loop over cfg.Targets.  Disabled entries  *)
(* are skipped before their URL is parsed; the first enabled entry whose   *)
(* URL does not parse aborts construction; an empty result is an error.    *)
(***************************************************************************)
RECURSIVE NewLoop_NoFilter(_, _)
NewLoop_NoFilter(cfg, acc) ==
  IF cfg = <<>> THEN [err |-> FALSE, targets |-> acc]
  ELSE LET u == urlParse(Head(cfg).URL) IN
       IF u.err THEN [err |-> TRUE, targets |-> <<>>]
       ELSE NewLoop_NoFilter(Tail(cfg),
                   Append(acc, [Scheme |-> u.Scheme, Host |-> u.Host]))

RECURSIVE NewLoop_ParseFirst(_, _)
NewLoop_ParseFirst(cfg, acc) ==
  IF cfg = <<>> THEN [err |-> FALSE, targets |-> acc]
  ELSE LET target == Head(cfg)
           u == urlParse(target.URL)
       IN
       IF u.err THEN [err |-> TRUE, targets |-> <<>>]
       ELSE IF ~target.Enabled THEN NewLoop_ParseFirst(Tail(cfg), acc)
       ELSE NewLoop_ParseFirst(Tail(cfg),
                   Append(acc, [Scheme |-> u.Scheme, Host |-> u.Host]))

RECURSIVE NewLoop(_, _)
NewLoop(cfg, acc) ==
  IF cfg = <<>> THEN [err |-> FALSE, targets |-> acc]
  ELSE LET target == Head(cfg) IN
       IF ~target.Enabled THEN NewLoop(Tail(cfg), acc)
       ELSE LET u == urlParse(target.URL) IN
            IF u.err THEN [err |-> TRUE, targets |-> <<>>]
            ELSE NewLoop(Tail(cfg),
                         Append(acc, [Scheme |-> u.Scheme, Host |-> u.Host]))

\* proxy.New: the (*Proxy, error) pair it returns
New_AllowEmpty(cfg) ==
  LET l == NewLoop(cfg, <<>>) IN
  IF l.err THEN [err |-> "invalid target URL", targets |-> <<>>, stats |-> <<>>]
  ELSE [err |-> "",
        targets |-> l.targets,
        stats |-> [i \in 1..Len(l.targets) |-> ZeroStats]]

New(cfg) ==
  LET l == NewLoop(cfg, <<>>) IN
  IF l.err THEN [err |-> "invalid target URL", targets |-> <<>>, stats |-> <<>>]
  ELSE IF Len(l.targets) = 0
       THEN [err |-> "no enabled targets configured",
             targets |-> <<>>, stats |-> <<>>]
       ELSE [err |-> "",
             targets |-> l.targets,
             stats |-> [i \in 1..Len(l.targets) |-> ZeroStats]]

(***************************************************************************)
(* Go integer arithmetic used by the dispatcher.                           *)
(***************************************************************************)
\* Go's % truncates toward zero: the result has the sign of the dividend
GoRem(a, b) == IF a >= 0 THEN a % b ELSE 0 - ((0 - a) % b)

(***************************************************************************)
(* int64 at its full width.  A value is its two's-complement bit pattern   *)
(* as four 16-bit limbs, least significant first; addition wraps modulo    *)
(* 2^64 as Go's does.                                                      *)
(***************************************************************************)
\* int64(k) for 0 <= k < 65536
Int64Of(k) == <<k, 0, 0, 0>>

Int64Add(a, b) ==
  LET s1 == a[1] + b[1]
      s2 == a[2] + b[2] + (s1 \div 65536)
      s3 == a[3] + b[3] + (s2 \div 65536)
      s4 == a[4] + b[4] + (s3 \div 65536)
  IN <<s1 % 65536, s2 % 65536, s3 % 65536, s4 % 65536>>

Int64MinusOne == <<65535, 65535, 65535, 65535>>
MaxInt64 == <<65535, 65535, 65535, 32767>>
MinInt64 == <<0, 0, 0, 32768>>

Int64IsNegative(a) == a[4] >= 32768

\* -a
Int64Neg(a) ==
  Int64Add(<<65535 - a[1], 65535 - a[2], 65535 - a[3], 65535 - a[4]>>,
           Int64Of(1))

\* the bit pattern read as an unsigned number, modulo n
Uint64Mod(a, n) ==
  LET r4 == a[4] % n
      r3 == (r4 * 65536 + a[3]) % n
      r2 == (r3 * 65536 + a[2]) % n
  IN (r2 * 65536 + a[1]) % n

\* a % int64(n) for n > 0: Go's % truncates toward zero, so the result of
\* a negative dividend is zero or negative
Int64Rem(a, n) ==
  IF Int64IsNegative(a) THEN 0 - Uint64Mod(Int64Neg(a), n)
  ELSE Uint64Mod(a, n)

\* ServeHTTP line 142: the value atomic.AddInt64(&p.current, 1) leaves in
\* p.current (the caller takes the value before the add as startIndex)
AtomicAddCurrent_Stuck(c) == c

AtomicAddCurrent_ByTwo(c) == c + 2

AtomicAddCurrent(c) == c + 1

\* ServeHTTP line 144: targetIndex (0-based, as in the source)
TargetIndex_NoAdvance(start, att, n) == GoRem(start, n)

TargetIndex_NoStart(start, att, n) == GoRem(att, n)

TargetIndex_SkipOne(start, att, n) == GoRem(start + 2 * att, n)

TargetIndex(start, att, n) == GoRem(start + att, n)

\* ServeHTTP line 143: the loop condition attempt < len(p.targets)
LoopContinues_OffByOne(att, n) == att <= n

LoopContinues(att, n) == att < n

\* ServeHTTP line 149: the isLastAttempt argument of tryTarget
IsLastAttempt_OffByOne(att, n) == att = n

IsLastAttempt(att, n) == att = n - 1

(***************************************************************************)
(* State.                                                                  *)
(***************************************************************************)
VARIABLES
  cfgFile,     \* the configuration file main is started with
  cfgSource,   \* "none" until main has its cfg, then where cfg came from
  cfgTargets,  \* cfg.Targets handed to New
  phase,       \* "boot" before New, then "constructed" and "serving", or
               \* "failed" when New failed, "exited" when the listener did
  targets,     \* p.targets
  current,     \* p.current
  stats,       \* p.stats
  pc,          \* per request: position in ServeHTTP / tryTarget
  startIndex,  \* per request: local startIndex of ServeHTTP
  attempt,     \* per request: loop variable of ServeHTTP
  failed,      \* per request: local failed of tryTarget
  resp,        \* per request: what was written to the client's ResponseWriter
  events,      \* per request: the calls made on p.logger
  tried,       \* per request: history of forwarding attempts and their outcome
  request,     \* per request: the *http.Request as it arrived (never written)
  header,      \* per request: r.Header, the forwarding headers of the request
  cls,         \* pkg/errors: one error under classification and what the
               \* classifier returned for it
  errObjs,     \* pkg/errors: the GatewayError objects allocated so far
  errPool,     \* pkg/errors: the objects errorPool holds
  errRefs,     \* per holder: the *GatewayError pointers it has in hand
  errOwned,    \* per holder: the objects New returned to it and it has not
               \* released since
  errMetrics,  \* pkg/errors: errorCreateCount, errorPoolHits, errorPoolMisses
  bwMu,        \* bufferedWriter.mu: 0 when unlocked, else the goroutine holding it
  bwBuffer,    \* len(bufferedWriter.buffer)
  bwWritten,   \* bytes handed to the underlying writer so far
  logPc,       \* per goroutine: position in bufferedWriter.Write
  logArg,      \* per goroutine: len(p) of the Write call in progress
  logCalls,    \* per goroutine: Write calls returned so far
  logErr,      \* per goroutine: whether its last Write returned an error
  val,         \* internal/config: a Config and what Validate returned for it
  ld,          \* internal/config: a file and an environment, and what the
               \* Loader returned for them
  pair,        \* two Proxy instances over the same pool, each with the start
               \* indices it has handed out
  ix,          \* a Proxy whose counter is kept at its full width of 64 bits,
               \* and the request it is handling
  snap,        \* the GetStats call in progress: its position and the copy
               \* it builds and returns
  page,        \* what the /stats handler of main has written
  lg           \* pkg/logger: a Logger and the loggers derived from it,
               \* and the last call made on one of them

\* the state of the dispatcher and of its requests
bootVars == <<cfgFile, cfgSource>>
proxyVars == <<bootVars, cfgTargets, phase, targets, current, stats, pc,
               startIndex, attempt, failed, resp, events, tried, request,
               header>>

\* the state of the packages the dispatcher is built on
poolVars == <<errObjs, errPool, errRefs, errOwned, errMetrics>>
logVars == <<bwMu, bwBuffer, bwWritten, logPc, logArg, logCalls, logErr>>
pureVars == <<val, ld, pair, ix, snap, page, lg>>
libVars == <<cls, poolVars, logVars, pureVars>>

vars == <<proxyVars, libVars>>

(***************************************************************************)
(* The environment: what one forwarding attempt can come back with.  A     *)
(* backend that answers (with any status) does not fire the error hook of  *)
(* httputil.ReverseProxy; a transport-level failure fires it with an error *)
(* of some class.                                                          *)
(***************************************************************************)
BackendStatuses == {200, 404, 500}

Outcomes ==
  [ok : {TRUE}, status : BackendStatuses, code : {""}]
    \cup [ok : {FALSE}, status : {0}, code : TransportErrorCodes]

\* tryTarget lines 164-167 and 184: the error hook, and with it failed = true,
\* is reached only when the transport failed, whatever status a backend sent
ErrorHookFires_On5xx(o) == ~o.ok \/ o.status >= 500

ErrorHookFires(o) == ~o.ok

(***************************************************************************)
(* Helpers over the per-target counters (atomic.AddInt64 on one field).    *)
(* Pool positions are 0-based as in the source; TLA+ sequences are         *)
(* 1-based, hence the +1 when indexing targets and stats.                  *)
(***************************************************************************)
AddRequests_LostUpdate(s, idx) ==
  [s EXCEPT ![idx + 1].Requests = 1]

AddRequests(s, idx) ==
  [s EXCEPT ![idx + 1].Requests = @ + 1]

AddSuccesses_WrongField(s, idx) ==
  [s EXCEPT ![idx + 1].Failures = @ + 1]

AddSuccesses(s, idx) ==
  [s EXCEPT ![idx + 1].Successes = @ + 1]

AddFailures_Dropped(s, idx) == s

AddFailures(s, idx) ==
  [s EXCEPT ![idx + 1].Failures = @ + 1]

\* ServeHTTP line 147: the attempt number handed to LogProxy
AttemptNumber_ZeroBased(att) == att

AttemptNumber(att) == att + 1

\* Logger.LogProxy, LogProxyFailure, LogProxySuccess and LogAllTargetsFailed:
\* the methods are called by the dispatcher and are not part of
\* pkg/logger/logger.go; each call emits one structured event that carries
\* the arguments of the call
LogEvent(ev, host, att, total) ==
  <<[ev |-> ev, host |-> host, attempt |-> att, total |-> total]>>

\* tryTarget line 175: the keys of the JSON object the error hook formats
ErrorBodyKeys == {"error", "last_target", "message"}

\* tryTarget lines 171-176: what the error hook writes to the client
ErrorHandlerWrite_Always(isLastAttempt, host, code) ==
  <<[kind |-> "error", status |-> StatusBadGateway,
     error |-> "All targets unavailable",
     last_target |-> host, message |-> code,
     keys |-> ErrorBodyKeys]>>

ErrorHandlerWrite(isLastAttempt, host, code) ==
  IF isLastAttempt
  THEN <<[kind |-> "error", status |-> StatusBadGateway,
          error |-> "All targets unavailable",
          last_target |-> host, message |-> code,
          keys |-> ErrorBodyKeys]>>
  ELSE <<>>

\* the response of a backend that answered, streamed to the client by
\* httputil.ReverseProxy.ServeHTTP
BackendWrite(host, status) ==
  <<[kind |-> "backend", status |-> status, error |-> "",
     last_target |-> host, message |-> "", keys |-> {}]>>

(***************************************************************************)
(* The forwarding headers.  A header value is the list of its              *)
(* comma-separated elements; the empty list is an absent header.           *)
(***************************************************************************)
\* an inbound request from the client at RemoteAddr, carrying the given
\* X-Forwarded-For
RemoteAddr == "192.0.2.1:5000"
GatewayHost == "gw.example"
Request(xff) ==
  [RemoteAddr |-> RemoteAddr, Host |-> GatewayHost,
   Header |-> [XForwardedFor |-> xff, XForwardedHost |-> <<>>]]

\* net.SplitHostPort(req.RemoteAddr), the host part
ClientIP(addr) == IF addr = RemoteAddr THEN "192.0.2.1" ELSE addr

\* tryTarget lines 179-180: r.Header.Set replaces whatever the header held
SetForwardingHeaders(h, req) ==
  [h EXCEPT !.XForwardedHost = <<req.Host>>,
            !.XForwardedFor = <<req.RemoteAddr>>]

\* tryTarget line 182: httputil.ReverseProxy forwards a clone of the request
\* whose X-Forwarded-For is the prior value with the client IP appended
OutboundXFF(h, req) == Append(h.XForwardedFor, ClientIP(req.RemoteAddr))

Reqs == DOMAIN pc
N == Len(targets)
Idx(r) == TargetIndex(startIndex[r], attempt[r], N)

(***************************************************************************)
(* cmd/velocity/main.go lines 22-36: main takes its configuration from    *)
(* the file when the file exists and loads, and the defaults otherwise.    *)
(***************************************************************************)
LoadConfig ==
  /\ phase = "boot"
  /\ cfgSource = "none"
  /\ IF cfgFile.status = "absent"
     THEN /\ cfgTargets' = DefaultTargets
          /\ cfgSource' = "default, no file"
     ELSE IF LoadFromFile(cfgFile).err
     THEN /\ cfgTargets' = DefaultTargets
          /\ cfgSource' = "default, load failed"
     ELSE /\ cfgTargets' = LoadFromFile(cfgFile).Targets
          /\ cfgSource' = "file"
  /\ UNCHANGED <<cfgFile, phase, targets, current, stats, pc, startIndex,
                 attempt, failed, resp, events, tried, request, header>>
  /\ UNCHANGED libVars

(***************************************************************************)
(* cmd/velocity/main.go lines 42-46: main calls proxy.New and either keeps *)
(* the Proxy or terminates the process with log.Fatal.                     *)
(***************************************************************************)
AfterNew_NoFatal(err) == "constructed"

AfterNew(err) == IF err = "" THEN "constructed" ELSE "failed"

Construct ==
  /\ phase = "boot"
  /\ cfgSource # "none"
  /\ LET p == New(cfgTargets) IN
       /\ phase' = AfterNew(p.err)
       /\ targets' = p.targets
       /\ stats' = p.stats
  /\ current' = 0
  /\ UNCHANGED <<cfgTargets, pc, startIndex, attempt, failed, resp, events,
                 tried, request, header>>
  /\ UNCHANGED bootVars
  /\ UNCHANGED libVars

(***************************************************************************)
(* cmd/velocity/main.go lines 101-113: the handlers are registered and     *)
(* ListenAndServe either starts accepting requests or fails, which ends    *)
(* the process.                                                            *)
(***************************************************************************)
Listen ==
  /\ phase = "constructed"
  /\ \E ok \in BOOLEAN : phase' = IF ok THEN "serving" ELSE "exited"
  /\ UNCHANGED <<cfgTargets, targets, current, stats, pc, startIndex,
                 attempt, failed, resp, events, tried, request, header>>
  /\ UNCHANGED bootVars
  /\ UNCHANGED libVars

(***************************************************************************)
(* Proxy.ServeHTTP lines 136-142: entry, the empty-pool branch and the     *)
(* atomic fetch-and-add that yields startIndex.  Requests are numbered in  *)
(* the order in which they take the counter.                               *)
(***************************************************************************)
ServeHTTP(r) ==
  /\ phase = "serving"
  /\ pc[r] = "idle"
  /\ \A q \in Reqs : q < r => pc[q] # "idle"
  /\ IF Len(targets) = 0
     THEN /\ resp' = [resp EXCEPT ![r] =
                        <<[kind |-> "error", status |-> StatusBadGateway,
                           error |-> "No targets available",
                           last_target |-> "", message |-> "",
                           keys |-> {}]>>]
          /\ pc' = [pc EXCEPT ![r] = "done"]
          /\ UNCHANGED <<current, startIndex, attempt>>
     ELSE /\ startIndex' = [startIndex EXCEPT ![r] = current]
          /\ current' = AtomicAddCurrent(current)
          /\ attempt' = [attempt EXCEPT ![r] = 0]
          /\ pc' = [pc EXCEPT ![r] = "loop"]
          /\ UNCHANGED resp
  /\ UNCHANGED <<cfgTargets, phase, targets, stats, failed, events, tried,
                 request, header>>
  /\ UNCHANGED bootVars
  /\ UNCHANGED libVars

(***************************************************************************)
(* Proxy.ServeHTTP lines 143-149 and 154, Proxy.tryTarget lines 160-180:   *)
(* the loop test.  Inside the loop the target is chosen, LogProxy is       *)
(* called and tryTarget counts the attempt, builds the per-attempt reverse *)
(* proxy with its error hook and sets the forwarding headers.  After the   *)
(* loop LogAllTargetsFailed is called and ServeHTTP returns.               *)
(***************************************************************************)
TryTarget(r) ==
  /\ pc[r] = "loop"
  /\ IF LoopContinues(attempt[r], N)
     THEN /\ events' = [events EXCEPT ![r] = @ \o
                 LogEvent("LogProxy", targets[Idx(r) + 1].Host,
                          AttemptNumber(attempt[r]), N)]
          /\ stats' = AddRequests(stats, Idx(r))
          /\ failed' = [failed EXCEPT ![r] = FALSE]
          /\ header' = [header EXCEPT ![r] =
                          SetForwardingHeaders(@, request[r])]
          /\ pc' = [pc EXCEPT ![r] = "forward"]
     ELSE /\ events' = [events EXCEPT ![r] = @ \o
                 LogEvent("LogAllTargetsFailed", "", 0, 0)]
          /\ pc' = [pc EXCEPT ![r] = "done"]
          /\ UNCHANGED <<stats, failed, header>>
  /\ UNCHANGED <<cfgTargets, phase, targets, current, startIndex, attempt,
                 resp, tried, request>>
  /\ UNCHANGED bootVars
  /\ UNCHANGED libVars

(***************************************************************************)
(* Proxy.tryTarget line 182, proxy.ServeHTTP(w, r): the attempt is         *)
(* forwarded.  Either the backend answers and its response is streamed to  *)
(* the client, or the transport fails and the error hook of lines 164-177  *)
(* runs, after which tryTarget returns false (line 189) and ServeHTTP      *)
(* moves to the next loop iteration (lines 143, 149).                      *)
(***************************************************************************)
Forward(r) ==
  /\ pc[r] = "forward"
  /\ \E o \in Outcomes :
       LET idx == Idx(r)
           host == targets[idx + 1].Host
       IN
       /\ tried' = [tried EXCEPT ![r] = Append(@,
              [index |-> idx, ok |-> o.ok, code |-> o.code,
               status |-> o.status,
               xff |-> OutboundXFF(header[r], request[r])])]
       /\ IF ~ErrorHookFires(o)
          THEN /\ resp' = [resp EXCEPT ![r] = @ \o BackendWrite(host, o.status)]
               /\ pc' = [pc EXCEPT ![r] = "ret"]
               /\ UNCHANGED <<failed, stats, events, attempt>>
          ELSE /\ events' = [events EXCEPT ![r] = @ \o
                      LogEvent("LogProxyFailure", host, 0, 0)]
               /\ failed' = [failed EXCEPT ![r] = TRUE]
               /\ stats' = AddFailures(stats, idx)
               /\ resp' = [resp EXCEPT ![r] = @ \o
                      ErrorHandlerWrite(IsLastAttempt(attempt[r], N),
                                        host, o.code)]
               /\ attempt' = [attempt EXCEPT ![r] = @ + 1]
               /\ pc' = [pc EXCEPT ![r] = "loop"]
  /\ UNCHANGED <<cfgTargets, phase, targets, current, startIndex, request,
                 header>>
  /\ UNCHANGED bootVars
  /\ UNCHANGED libVars

(***************************************************************************)
(* Proxy.tryTarget lines 184-189 and ServeHTTP lines 149-151: after the    *)
(* forwarding call returned without the error hook firing, the attempt is  *)
(* logged and counted as a success and ServeHTTP returns.                  *)
(***************************************************************************)
TryReturn(r) ==
  /\ pc[r] = "ret"
  /\ ~failed[r]
  /\ events' = [events EXCEPT ![r] = @ \o
         LogEvent("LogProxySuccess", targets[Idx(r) + 1].Host, 0, 0)]
  /\ stats' = AddSuccesses(stats, Idx(r))
  /\ pc' = [pc EXCEPT ![r] = "done"]
  /\ UNCHANGED <<cfgTargets, phase, targets, current, startIndex, attempt,
                 failed, resp, tried, request, header>>
  /\ UNCHANGED bootVars
  /\ UNCHANGED libVars

(***************************************************************************)
(* Initial states.                                                         *)
(***************************************************************************)
\* the request-local state before any request has arrived
InitRequests(n) ==
  /\ pc = [r \in 1..n |-> "idle"]
  /\ startIndex = [r \in 1..n |-> 0]
  /\ attempt = [r \in 1..n |-> 0]
  /\ failed = [r \in 1..n |-> FALSE]
  /\ resp = [r \in 1..n |-> <<>>]
  /\ events = [r \in 1..n |-> <<>>]
  /\ tried = [r \in 1..n |-> <<>>]

\* the requests as they arrive: r.Header starts as the client sent it
InitHeaders(reqs) ==
  /\ request = reqs
  /\ header = [r \in DOMAIN reqs |-> reqs[r].Header]

\* the X-Forwarded-For values a client may send: none, or one earlier hop
InboundXFF == {<<>>, <<"203.0.113.7">>}

\* an error not yet created: the code New will be called with
NoError(code) ==
  [Code |-> code, created |-> FALSE, StatusCode |-> 0, Severity |-> 0,
   asked |-> {}, Retriable |-> FALSE, Delay |-> 0, Temporary |-> FALSE,
   Retry |-> FALSE]

\* the packages at rest, while a dispatcher specification runs
\* the goroutines that create and release errors
Holders == {1, 2}

\* errorPool before the first New: nothing allocated, nothing pooled
InitErrorPool ==
  /\ errObjs = <<>>
  /\ errPool = {}
  /\ errRefs = [h \in Holders |-> {}]
  /\ errOwned = [h \in Holders |-> {}]
  /\ errMetrics = [CreateCount |-> 0, PoolHits |-> 0, PoolMisses |-> 0]

\* the goroutines, each handling one request, that log through one Logger
LogWriters == {1, 2}

\* the bufferedWriter createWriter returns (lines 249-252): no buffer yet
InitLogger ==
  /\ bwMu = 0
  /\ bwBuffer = 0
  /\ bwWritten = 0
  /\ logPc = [g \in LogWriters |-> "idle"]
  /\ logArg = [g \in LogWriters |-> 0]
  /\ logCalls = [g \in LogWriters |-> 0]
  /\ logErr = [g \in LogWriters |-> FALSE]

\* no configuration under validation
NoValidation == [cfg |-> DefaultConfig, validated |-> FALSE, err |-> ""]

\* a YAML document that gives none of the keys
EmptyDocument ==
  [status |-> "loadable", Host |-> <<>>, Port |-> <<>>, Level |-> <<>>,
   HealthCheckEnabled |-> <<>>]

\* an environment without VELOCITY_ variables
EmptyEnv ==
  [SERVER_HOST |-> "", SERVER_PORT |-> "", LOGGING_LEVEL |-> "",
   HEALTH_CHECK_ENABLED |-> ""]

\* no load requested
NoLoad ==
  [fn |-> "LoadDefault", file |-> EmptyDocument, env |-> EmptyEnv,
   called |-> FALSE, err |-> "", cfg |-> <<>>]

\* no pair of dispatchers
NoPair == <<>>

\* no GetStats call made
NoSnapshot == [pc |-> "idle", i |-> 0, field |-> "", out |-> <<>>]

\* no Logger under observation
NoLogger ==
  [loggers |-> <<>>, ops |-> 0,
   last |-> [op |-> "", id |-> 0, m |-> 0, emitted |-> FALSE]]

\* nothing written by the /stats handler
NoPage == [written |-> FALSE, stats |-> <<>>]

\* no Proxy with a full-width counter
NoIndexing ==
  [current |-> Int64Of(0), n |-> 0, pc |-> "off", startIndex |-> Int64Of(0),
   attempt |-> 0, targetIndex |-> 0, served |-> 0]

PureIdle ==
  /\ val = NoValidation
  /\ ld = NoLoad
  /\ pair = NoPair
  /\ ix = NoIndexing
  /\ snap = NoSnapshot
  /\ page = NoPage
  /\ lg = NoLogger

LibIdle ==
  /\ cls = NoError("")
  /\ InitErrorPool
  /\ InitLogger
  /\ PureIdle

\* no dispatcher, while a specification of one of the packages runs
ProxyOff ==
  /\ cfgFile = [status |-> "absent", hasTargets |-> FALSE, targets |-> <<>>]
  /\ cfgSource = "none"
  /\ cfgTargets = <<>>
  /\ phase = "off"
  /\ targets = <<>>
  /\ stats = <<>>
  /\ current = 0
  /\ InitRequests(0)
  /\ InitHeaders(<<>>)

\* target URLs of the pools the dispatcher specifications run on
PoolURLs == <<"http://a", "https://b", "http://c", "https://d", "http://e">>

\* a target list of n enabled targets with pairwise distinct hosts
PoolConfig(n) == [i \in 1..n |-> TargetConfig(PoolURLs[i], TRUE)]

\* the state right after a successful proxy.New(cfg)
InitProxy(cfg) ==
  /\ cfgFile = [status |-> "loadable", hasTargets |-> TRUE, targets |-> cfg]
  /\ cfgSource = "file"
  /\ cfgTargets = cfg
  /\ phase = "serving"
  /\ targets = New(cfg).targets
  /\ stats = New(cfg).stats
  /\ current = 0

(***************************************************************************)
(* Spec: one Proxy over a pool of 1..MaxPool targets serving MaxRequests   *)
(* requests concurrently, in any interleaving of their steps.  Larger      *)
(* pools, with a single request, are covered by SpecNew below.             *)
(***************************************************************************)
Init ==
  /\ \E n \in 1..MaxPool : InitProxy(PoolConfig(n))
  /\ InitRequests(MaxRequests)
  /\ InitHeaders([r \in 1..MaxRequests |-> Request(<<>>)])
  /\ LibIdle

Next ==
  \/ \E r \in Reqs : ServeHTTP(r)
  \/ \E r \in Reqs : TryTarget(r)
  \/ \E r \in Reqs : Forward(r)
  \/ \E r \in Reqs : TryReturn(r)

Spec == Init /\ [][Next]_vars

\* the same Proxy and requests, named apart for the properties of what one
\* request is answered and where its attempts go
SpecDispatch == Init /\ [][Next]_vars

(***************************************************************************)
(* SpecSeq: the same Proxy, requests handled one after another (a request  *)
(* arrives only when no other request is being handled).                   *)
(***************************************************************************)
\* number of requests of the sequential specification
MaxSeqRequests == 4

\* the pools on which that many requests make at least two full cycles
SeqPools == 1..(MaxSeqRequests \div 2)

InitSeq ==
  /\ \E n \in SeqPools : InitProxy(PoolConfig(n))
  /\ InitRequests(MaxSeqRequests)
  /\ InitHeaders([r \in 1..MaxSeqRequests |-> Request(<<>>)])
  /\ LibIdle

Quiet(r) == \A q \in Reqs \ {r} : pc[q] \in {"idle", "done"}

NextSeq ==
  \/ \E r \in Reqs : Quiet(r) /\ ServeHTTP(r)
  \/ \E r \in Reqs : Quiet(r) /\ TryTarget(r)
  \/ \E r \in Reqs : Quiet(r) /\ Forward(r)
  \/ \E r \in Reqs : Quiet(r) /\ TryReturn(r)

SpecSeq == InitSeq /\ [][NextSeq]_vars

(***************************************************************************)
(* SpecLive: a request and one competing request on a pool of 1..MaxPool   *)
(* targets, with scheduling.  The Go scheduler runs runnable         *)
(* goroutines and every forwarding attempt eventually returns, with a      *)
(* response or a transport error: as long as some request has a step of    *)
(* tryTarget or of the loop to take, one of them is eventually taken.      *)
(* Nothing forces a request to arrive.                                     *)
(***************************************************************************)
Progress ==
  \/ \E r \in Reqs : TryTarget(r)
  \/ \E r \in Reqs : Forward(r)
  \/ \E r \in Reqs : TryReturn(r)

Fairness == WF_vars(Progress)

\* the request under observation and its competitor
LiveReqs == {1, 2}

InitLive ==
  /\ \E n \in 1..MaxPool : InitProxy(PoolConfig(n))
  /\ InitRequests(Cardinality(LiveReqs))
  /\ InitHeaders([r \in LiveReqs |-> Request(<<>>)])
  /\ LibIdle

SpecLive == InitLive /\ [][Next]_vars /\ Fairness

(***************************************************************************)
(* SpecNew: the process from startup: main loads its configuration from    *)
(* an arbitrary file, or takes the defaults, hands the target list to      *)
(* proxy.New and, when New succeeds and the listener starts, serves one    *)
(* request.                                                                *)
(***************************************************************************)
NewURLs == {"http://a", "https://b", "ftp://f", ":bad"}

TargetConfigs == {TargetConfig(u, en) : u \in NewURLs, en \in BOOLEAN}

Configs == UNION {[1..n -> TargetConfigs] : n \in 0..MaxTargets}

\* the configuration file: absent, present but not loadable (unreadable or
\* not YAML), or a YAML document with or without a targets key
Files ==
  {[status |-> st, hasTargets |-> FALSE, targets |-> <<>>] :
     st \in {"absent", "unloadable", "loadable"}}
    \cup {[status |-> "loadable", hasTargets |-> TRUE, targets |-> c] :
            c \in Configs}

InitNew ==
  /\ cfgFile \in Files
  /\ cfgSource = "none"
  /\ cfgTargets = <<>>
  /\ phase = "boot"
  /\ targets = <<>>
  /\ stats = <<>>
  /\ current = 0
  /\ InitRequests(1)
  /\ \E x \in InboundXFF : InitHeaders([r \in 1..1 |-> Request(x)])
  /\ LibIdle

NextNew ==
  \/ LoadConfig
  \/ Construct
  \/ Listen
  \/ \E r \in Reqs : ServeHTTP(r)
  \/ \E r \in Reqs : TryTarget(r)
  \/ \E r \in Reqs : Forward(r)
  \/ \E r \in Reqs : TryReturn(r)

SpecNew == InitNew /\ [][NextNew]_vars

(***************************************************************************)
(* SpecClassify: the classifier of pkg/errors on one error.  errors.New    *)
(* is called with any declared code, or with an undeclared one, and fills  *)
(* in the status code and the severity; the caller then asks the error     *)
(* whether it is retriable and which retry delay it suggests, in any       *)
(* order.                                                                  *)
(***************************************************************************)
\* errors.New lines 349-357: the fields derived from the code
ClassifyNew ==
  /\ ~cls.created
  /\ cls' = [cls EXCEPT !.created = TRUE,
                        !.StatusCode = getDefaultStatusCode(cls.Code),
                        !.Severity = getDefaultSeverity(cls.Code)]
  /\ UNCHANGED <<proxyVars, poolVars, logVars>>
  /\ UNCHANGED pureVars

\* e.IsRetriable()
ClassifyIsRetriable ==
  /\ cls.created
  /\ "IsRetriable" \notin cls.asked
  /\ cls' = [cls EXCEPT !.asked = @ \cup {"IsRetriable"},
                        !.Retriable = IsRetriable(cls.Code)]
  /\ UNCHANGED <<proxyVars, poolVars, logVars>>
  /\ UNCHANGED pureVars

\* e.GetRetryDelay()
ClassifyGetRetryDelay ==
  /\ cls.created
  /\ "GetRetryDelay" \notin cls.asked
  /\ cls' = [cls EXCEPT !.asked = @ \cup {"GetRetryDelay"},
                        !.Delay = GetRetryDelay(cls.Code)]
  /\ UNCHANGED <<proxyVars, poolVars, logVars>>
  /\ UNCHANGED pureVars

\* e.IsTemporary()
ClassifyIsTemporary ==
  /\ cls.created
  /\ "IsTemporary" \notin cls.asked
  /\ cls' = [cls EXCEPT !.asked = @ \cup {"IsTemporary"},
                        !.Temporary = IsTemporary(cls.Code)]
  /\ UNCHANGED <<proxyVars, poolVars, logVars>>
  /\ UNCHANGED pureVars

\* e.ShouldRetry(), on the severity the error carries
ClassifyShouldRetry ==
  /\ cls.created
  /\ "ShouldRetry" \notin cls.asked
  /\ cls' = [cls EXCEPT !.asked = @ \cup {"ShouldRetry"},
                        !.Retry = ShouldRetry(cls.Code, cls.Severity)]
  /\ UNCHANGED <<proxyVars, poolVars, logVars>>
  /\ UNCHANGED pureVars

InitClassify ==
  /\ ProxyOff
  /\ InitErrorPool
  /\ InitLogger
  /\ \E code \in ErrorCodes : cls = NoError(code)
  /\ PureIdle

NextClassify ==
  \/ ClassifyNew
  \/ ClassifyIsRetriable
  \/ ClassifyGetRetryDelay
  \/ ClassifyIsTemporary
  \/ ClassifyShouldRetry

SpecClassify == InitClassify /\ [][NextClassify]_vars

(***************************************************************************)
(* SpecPredefined: the classifier on one of the pre-defined error values   *)
(* of pkg/errors (errors.go lines 592-643), which are struct literals that *)
(* never went through New.                                                 *)
(***************************************************************************)
StatusInternalServerError == 500
StatusBadRequest == 400
StatusNotFound == 404
StatusUnauthorized == 401
StatusTooManyRequests == 429

Predefined(name, code, status, severity) ==
  [name |-> name,
   err |-> [NoError(code) EXCEPT !.created = TRUE, !.StatusCode = status,
                                 !.Severity = severity]]

PredefinedErrors ==
  {Predefined("ErrInternalServer", CodeInternalError,
              StatusInternalServerError, SeverityFatal),
   Predefined("ErrConfigInvalid", CodeConfigurationError,
              StatusInternalServerError, SeverityCritical),
   Predefined("ErrBadRequest", CodeBadRequest, StatusBadRequest,
              SeverityInfo),
   Predefined("ErrNotFound", CodeNotFound, StatusNotFound, SeverityInfo),
   Predefined("ErrUnauthorized", CodeUnauthorized, StatusUnauthorized,
              SeverityInfo),
   Predefined("ErrTooManyRequests", CodeTooManyRequests,
              StatusTooManyRequests, SeverityWarn),
   Predefined("ErrNoHealthyTargets", CodeNoHealthyTargets, StatusBadGateway,
              SeverityCritical),
   Predefined("ErrUpstreamUnavailable", CodeUpstreamUnavailable,
              StatusBadGateway, SeverityError)}

InitPredefined ==
  /\ ProxyOff
  /\ InitErrorPool
  /\ InitLogger
  /\ \E e \in PredefinedErrors : cls = e.err
  /\ PureIdle

NextPredefined ==
  \/ ClassifyIsRetriable
  \/ ClassifyGetRetryDelay
  \/ ClassifyIsTemporary
  \/ ClassifyShouldRetry

SpecPredefined == InitPredefined /\ [][NextPredefined]_vars

(***************************************************************************)
(* SpecErr: errors.New and Release over errorPool, called by concurrent    *)
(* holders.  sync.Pool.Get returns one of the pooled objects or a fresh    *)
(* one from errorPool.New, at its own choice.  A holder keeps the pointer  *)
(* New returned after it has called Release, and nothing stops it from     *)
(* calling a method on it again.                                           *)
(***************************************************************************)
\* the codes the holders create errors with
PoolCodes == {CodeUpstreamTimeout, CodeUpstreamOverloaded, CodeBadRequest}

\* the keys the holders attach with WithContext
ContextKeys == {"target"}

\* errorPool.New lines 276-280: a fresh object
FreshError ==
  [Code |-> "", StatusCode |-> 0, Severity |-> 0, Context |-> {},
   pooled |-> 0]

\* errors.New lines 349-361: the struct literal written over the object,
\* and the context map emptied
NewFields_KeepStatus(old, code) ==
  [Code |-> code,
   StatusCode |-> IF old.StatusCode = 0 THEN getDefaultStatusCode(code)
                  ELSE old.StatusCode,
   Severity |-> getDefaultSeverity(code),
   Context |-> {},
   pooled |-> 1]

NewFields(old, code) ==
  [Code |-> code,
   StatusCode |-> getDefaultStatusCode(code),
   Severity |-> getDefaultSeverity(code),
   Context |-> {},
   pooled |-> 1]

\* errors.New lines 340-378, called by holder h
ErrorsNew(h, code) ==
  /\ errMetrics.CreateCount < MaxErrNew
  /\ \E id \in errPool \cup {Len(errObjs) + 1} :
       LET fresh == id \notin errPool
           old == IF fresh THEN FreshError ELSE errObjs[id]
       IN
       /\ fresh => id <= MaxErrObjs
       /\ errMetrics' =
            [CreateCount |-> errMetrics.CreateCount + 1,
             PoolHits |-> errMetrics.PoolHits
                            + (IF old.pooled = 1 THEN 1 ELSE 0),
             PoolMisses |-> errMetrics.PoolMisses
                            + (IF old.pooled = 1 THEN 0 ELSE 1)]
       /\ errObjs' = IF fresh THEN Append(errObjs, NewFields(old, code))
                     ELSE [errObjs EXCEPT ![id] = NewFields(old, code)]
       /\ errPool' = errPool \ {id}
       /\ errRefs' = [errRefs EXCEPT ![h] = @ \cup {id}]
       /\ errOwned' = [errOwned EXCEPT ![h] = @ \cup {id}]
  /\ UNCHANGED <<proxyVars, cls, logVars>>
  /\ UNCHANGED pureVars

\* GatewayError.Release lines 420-427, called by holder h on a pointer it
\* has: the compare-and-swap of pooled from 1 to 0 decides whether the
\* object is put into errorPool
ErrorsRelease(h, id) ==
  /\ id \in errRefs[h]
  /\ errObjs[id].pooled = 1
  /\ errObjs' = [errObjs EXCEPT ![id].pooled = 0]
  /\ errPool' = errPool \cup {id}
  /\ errOwned' = [errOwned EXCEPT ![h] = @ \ {id}]
  /\ UNCHANGED <<errRefs, errMetrics, proxyVars, cls, logVars>>
  /\ UNCHANGED pureVars

\* GatewayError.WithContext lines 205-212
ErrorsWithContext(h, id, key) ==
  /\ id \in errRefs[h]
  /\ key \notin errObjs[id].Context
  /\ errObjs' = [errObjs EXCEPT ![id].Context = @ \cup {key}]
  /\ UNCHANGED <<errPool, errRefs, errOwned, errMetrics, proxyVars, cls,
                 logVars>>
  /\ UNCHANGED pureVars

InitErr ==
  /\ ProxyOff
  /\ cls = NoError("")
  /\ InitErrorPool
  /\ InitLogger
  /\ PureIdle

NextErr ==
  \/ \E h \in Holders, code \in PoolCodes : ErrorsNew(h, code)
  \/ \E h \in Holders, id \in DOMAIN errObjs : ErrorsRelease(h, id)
  \/ \E h \in Holders, id \in DOMAIN errObjs, key \in ContextKeys :
        ErrorsWithContext(h, id, key)

SpecErr == InitErr /\ [][NextErr]_vars

(***************************************************************************)
(* SpecLog: the writer behind a Logger.  logger.New wraps the output in a  *)
(* bufferedWriter whenever the buffer size is positive, and replaces a     *)
(* buffer size of 0 by 4096 (lines 159-165, 248-253), so every record a    *)
(* Logger emits is one bufferedWriter.Write call made by the goroutine     *)
(* that logs.  Two goroutines, each handling a request, log records        *)
(* through the same Logger.                                                *)
(***************************************************************************)
\* lengths of the records: short, filling the buffer, larger than the buffer
RecordSizes == {1, BufferSize - 1, BufferSize + 1}

\* a logging method emits a record (Logger.Info lines 431-441): the
\* goroutine enters bufferedWriter.Write and arrives at bw.mu.Lock()
LogWriteCall(g, n) ==
  /\ logPc[g] = "idle"
  /\ logCalls[g] < MaxLogCalls
  /\ logPc' = [logPc EXCEPT ![g] = "lock"]
  /\ logArg' = [logArg EXCEPT ![g] = n]
  /\ UNCHANGED <<bwMu, bwBuffer, bwWritten, logCalls, logErr>>
  /\ UNCHANGED <<proxyVars, cls, poolVars>>
  /\ UNCHANGED pureVars

\* bufferedWriter.Write line 719: bw.mu.Lock() returns once the mutex is free
BwLock(g) ==
  /\ logPc[g] = "lock"
  /\ bwMu = 0
  /\ bwMu' = g
  /\ logPc' = [logPc EXCEPT ![g] = "write"]
  /\ UNCHANGED <<bwBuffer, bwWritten, logArg, logCalls, logErr>>
  /\ UNCHANGED <<proxyVars, cls, poolVars>>
  /\ UNCHANGED pureVars

\* bufferedWriter.Write lines 720-738 and flush lines 740-748, under the
\* mutex: flush when the record does not fit, write through when it is
\* larger than the buffer, append otherwise; the deferred Unlock on return.
\* The underlying writer may fail either of its two Write calls.
BwWrite(g) ==
  /\ logPc[g] = "write"
  /\ bwMu = g
  /\ \E flushErr, writeErr \in BOOLEAN :
       LET n == logArg[g]
           needFlush == bwBuffer + n > BufferSize
           flushes == needFlush /\ bwBuffer > 0
           aborted == flushes /\ flushErr
           through == ~aborted /\ n > BufferSize
       IN
       /\ flushes \/ ~flushErr
       /\ through \/ ~writeErr
       /\ bwWritten' = bwWritten + (IF flushes THEN bwBuffer ELSE 0)
                                 + (IF through THEN n ELSE 0)
       /\ bwBuffer' = IF aborted \/ through THEN 0
                      ELSE IF needFlush THEN n
                      ELSE bwBuffer + n
       /\ logErr' = [logErr EXCEPT ![g] = aborted \/ (through /\ writeErr)]
  /\ bwMu' = 0
  /\ logPc' = [logPc EXCEPT ![g] = "idle"]
  /\ logCalls' = [logCalls EXCEPT ![g] = @ + 1]
  /\ UNCHANGED logArg
  /\ UNCHANGED <<proxyVars, cls, poolVars>>
  /\ UNCHANGED pureVars

InitLog ==
  /\ ProxyOff
  /\ cls = NoError("")
  /\ InitErrorPool
  /\ InitLogger
  /\ PureIdle

NextLog ==
  \/ \E g \in LogWriters, n \in RecordSizes : LogWriteCall(g, n)
  \/ \E g \in LogWriters : BwLock(g)
  \/ \E g \in LogWriters : BwWrite(g)

SpecLog == InitLog /\ [][NextLog]_vars

(***************************************************************************)
(* SpecValidate: Config.Validate called on a configuration.  The           *)
(* configurations are the default one with one section replaced by any     *)
(* section over the boundary values of its fields, and each other section  *)
(* either as in the default or invalid.                                    *)
(***************************************************************************)
\* longest target list of a configuration under validation
MaxCfgTargets == 2

ServerConfigs ==
  [Host : {"", "0.0.0.0"}, Port : {0, 1, 8080, 65535, 65536},
   ReadTimeout : {0 - 1, 0, 30}, WriteTimeout : {0 - 1, 0, 30}]

\* target entries: any URL, enabled or not, with the other fields valid, or
\* a valid URL with a weight or a connection limit at and beyond its limits
ValidateTargetConfigs ==
  {[URL |-> u, Enabled |-> en, Weight |-> 0, MaxConnections |-> 0] :
     u \in {"", "http://a", "https://b", "ftp://f", "g", ":bad"},
     en \in BOOLEAN}
    \cup {[URL |-> "http://a", Enabled |-> TRUE, Weight |-> w,
           MaxConnections |-> 0] : w \in {0 - 1, 100, 101}}
    \cup {[URL |-> "http://a", Enabled |-> TRUE, Weight |-> 0,
           MaxConnections |-> m] : m \in {0 - 1, 10}}

TargetLists ==
  UNION {[1..n -> ValidateTargetConfigs] : n \in 0..MaxCfgTargets}

LoadBalancingConfigs ==
  [Algorithm : ValidAlgorithms \cup {"random", ""}]

HealthCheckConfigs ==
  [Enabled : BOOLEAN, Interval : {0, 5, 30}, Timeout : {0, 5, 30},
   UnhealthyThreshold : {0, 1, 3}, HealthyThreshold : {0, 1, 2}]

\* for each section, the default one and one Validate rejects
FewServers == {DefaultConfig.Server, [DefaultConfig.Server EXCEPT !.Port = 0]}
FewTargetLists == {DefaultTargets, <<>>}
FewLoadBalancings == {DefaultConfig.LoadBalancing, [Algorithm |-> "random"]}
FewHealthChecks ==
  {DefaultConfig.HealthCheck, [DefaultConfig.HealthCheck EXCEPT !.Interval = 0]}

ConfigOf(sv, ts, lb, hc) ==
  [Server |-> sv, Targets |-> ts, LoadBalancing |-> lb, HealthCheck |-> hc,
   Logging |-> DefaultConfig.Logging]

ValidateConfigs ==
  {ConfigOf(sv, ts, lb, hc) : sv \in ServerConfigs, ts \in FewTargetLists,
                              lb \in FewLoadBalancings, hc \in FewHealthChecks}
    \cup {ConfigOf(sv, ts, lb, hc) : sv \in FewServers, ts \in TargetLists,
                              lb \in FewLoadBalancings, hc \in FewHealthChecks}
    \cup {ConfigOf(sv, ts, lb, hc) : sv \in FewServers, ts \in FewTargetLists,
                              lb \in LoadBalancingConfigs,
                              hc \in FewHealthChecks}
    \cup {ConfigOf(sv, ts, lb, hc) : sv \in FewServers, ts \in FewTargetLists,
                              lb \in FewLoadBalancings,
                              hc \in HealthCheckConfigs}

\* c.Validate()
CallValidate ==
  /\ ~val.validated
  /\ val' = [val EXCEPT !.validated = TRUE, !.err = ConfigValidate(val.cfg)]
  /\ UNCHANGED <<proxyVars, cls, poolVars, logVars, ld, pair, ix, snap,
                 page, lg>>

InitValidate ==
  /\ ProxyOff
  /\ cls = NoError("")
  /\ InitErrorPool
  /\ InitLogger
  /\ \E c \in ValidateConfigs :
       val = [cfg |-> c, validated |-> FALSE, err |-> ""]
  /\ ld = NoLoad
  /\ pair = NoPair
  /\ ix = NoIndexing
  /\ snap = NoSnapshot
  /\ page = NoPage
  /\ lg = NoLogger

NextValidate == CallValidate

SpecValidate == InitValidate /\ [][NextValidate]_vars

(***************************************************************************)
(* SpecLoad: the Loader called on a configuration file and a process       *)
(* environment, by LoadFromFile or by LoadDefault.                         *)
(***************************************************************************)
LoadFiles ==
  {[EmptyDocument EXCEPT !.status = st] :
     st \in {"absent", "unreadable", "malformed"}}
    \cup [status : {"loadable"},
          Host : {<<>>, <<"10.0.0.1">>},
          Port : {<<>>, <<9000>>, <<0>>},
          Level : {<<>>, <<"warn">>},
          HealthCheckEnabled : {<<>>, <<FALSE>>}]

LoadEnvs ==
  [SERVER_HOST : {"", "127.0.0.1"},
   SERVER_PORT : {"", "9090", "0", "70000", "abc", "9090x"},
   LOGGING_LEVEL : {"", "DEBUG", "error", "verbose"},
   HEALTH_CHECK_ENABLED : {"", "OFF", "1", "maybe"}]

CallLoadFromFile ==
  /\ ~ld.called
  /\ ld.fn = "LoadFromFile"
  /\ ld' = [ld EXCEPT !.called = TRUE,
                      !.err = LoaderLoadFromFile(ld.file, ld.env).err,
                      !.cfg = LoaderLoadFromFile(ld.file, ld.env).cfg]
  /\ UNCHANGED <<proxyVars, cls, poolVars, logVars, val, pair, ix, snap,
                 page, lg>>

CallLoadDefault ==
  /\ ~ld.called
  /\ ld.fn = "LoadDefault"
  /\ ld' = [ld EXCEPT !.called = TRUE,
                      !.err = LoaderLoadDefault(ld.env).err,
                      !.cfg = LoaderLoadDefault(ld.env).cfg]
  /\ UNCHANGED <<proxyVars, cls, poolVars, logVars, val, pair, ix, snap,
                 page, lg>>

InitLoad ==
  /\ ProxyOff
  /\ cls = NoError("")
  /\ InitErrorPool
  /\ InitLogger
  /\ val = NoValidation
  /\ pair = NoPair
  /\ ix = NoIndexing
  /\ snap = NoSnapshot
  /\ page = NoPage
  /\ lg = NoLogger
  /\ \E f \in LoadFiles, e \in LoadEnvs, fn \in {"LoadFromFile", "LoadDefault"} :
       /\ fn = "LoadDefault" => f = EmptyDocument
       /\ ld = [fn |-> fn, file |-> f, env |-> e, called |-> FALSE,
                err |-> "", cfg |-> <<>>]

NextLoad ==
  \/ CallLoadFromFile
  \/ CallLoadDefault

SpecLoad == InitLoad /\ [][NextLoad]_vars

(***************************************************************************)
(* SpecPair: two Proxy instances constructed from the same target list,    *)
(* each handling its own requests one after another.  One step is one      *)
(* whole ServeHTTP call: the counter is taken, and the attempts are made   *)
(* in loop order until one is answered or all have failed; which attempts  *)
(* fail is the environment's choice, made separately for each instance.    *)
(***************************************************************************)
\* number of requests each of the two instances handles
MaxPairRequests == 3

Dispatchers == {1, 2}

\* ServeHTTP line 142: the start index is the value the counter held
StartIndex_AvoidFailed(p) ==
  IF \E i \in 1..Len(p.stats) : p.stats[i].Failures = 0
  THEN (CHOOSE i \in 1..Len(p.stats) :
          /\ p.stats[i].Failures = 0
          /\ \A j \in 1..(i - 1) : p.stats[j].Failures > 0) - 1
  ELSE p.current

StartIndex(p) == p.current

\* tryTarget lines 160 and 169 for the attempts from..(upto - 1) of a
\* request, all of which fail
RECURSIVE FailedAttempts(_, _, _, _)
FailedAttempts(st, start, from, upto) ==
  IF from >= upto THEN st
  ELSE LET idx == TargetIndex(start, from, Len(st)) IN
       FailedAttempts(AddFailures(AddRequests(st, idx), idx), start,
                      from + 1, upto)

\* tryTarget lines 160 and 186 for an attempt that is answered
AnsweredAttempt(st, start, att) ==
  LET idx == TargetIndex(start, att, Len(st)) IN
  AddSuccesses(AddRequests(st, idx), idx)

\* Proxy.ServeHTTP lines 136-155 on instance d: the first k attempts fail;
\* with k below the pool size the next one is answered
ServeRequest(d) ==
  /\ Len(pair[d].starts) < MaxPairRequests
  /\ \E k \in 0..Len(pair[d].targets) :
       LET p == pair[d]
           n == Len(p.targets)
           start == StartIndex(p)
           st == FailedAttempts(p.stats, start, 0, k)
       IN
       pair' = [pair EXCEPT ![d] =
                  [p EXCEPT !.current = AtomicAddCurrent(p.current),
                            !.starts = Append(p.starts, start),
                            !.stats = IF LoopContinues(k, n)
                                      THEN AnsweredAttempt(st, start, k)
                                      ELSE st]]
  /\ UNCHANGED <<proxyVars, cls, poolVars, logVars, val, ld, ix, snap,
                 page, lg>>

InitPair ==
  /\ ProxyOff
  /\ cls = NoError("")
  /\ InitErrorPool
  /\ InitLogger
  /\ val = NoValidation
  /\ ld = NoLoad
  /\ ix = NoIndexing
  /\ snap = NoSnapshot
  /\ page = NoPage
  /\ lg = NoLogger
  /\ \E n \in 1..MaxPool :
       pair = [d \in Dispatchers |->
                 [targets |-> New(PoolConfig(n)).targets,
                  stats |-> New(PoolConfig(n)).stats,
                  current |-> 0,
                  starts |-> <<>>]]

NextPair == \E d \in Dispatchers : ServeRequest(d)

SpecPair == InitPair /\ [][NextPair]_vars

(***************************************************************************)
(* SpecIndex: one Proxy whose counter p.current is an int64 at its full    *)
(* width, started at any of a set of counter values including the ones     *)
(* around the overflow, handling requests one after another.  Indexing     *)
(* p.targets or p.stats outside 0..N-1 is a run-time panic.                *)
(***************************************************************************)
\* number of requests handled from the counter value the Proxy starts at
MaxIndexRequests == 2

\* values of p.current: 0, 1, 2^16 - 1, 2^32 - 1, 2^63 - 2, 2^63 - 1, -2^63,
\* -2^63 + 1, -2, -1
CounterValues ==
  {Int64Of(0), Int64Of(1), Int64Of(65535), <<65535, 65535, 0, 0>>,
   Int64Add(MaxInt64, Int64MinusOne), MaxInt64, MinInt64,
   Int64Add(MinInt64, Int64Of(1)), Int64Add(Int64MinusOne, Int64MinusOne),
   Int64MinusOne}

\* ServeHTTP line 142: startIndex := atomic.AddInt64(&p.current, 1) - 1
IndexServeHTTP ==
  /\ ix.pc = "idle"
  /\ ix.served < MaxIndexRequests
  /\ ix' = [ix EXCEPT
              !.current = Int64Add(@, Int64Of(1)),
              !.startIndex =
                 Int64Add(Int64Add(ix.current, Int64Of(1)), Int64MinusOne),
              !.attempt = 0,
              !.pc = "loop"]
  /\ UNCHANGED <<proxyVars, cls, poolVars, logVars, val, ld, pair, snap,
                 page, lg>>

\* ServeHTTP lines 143-152 and tryTarget line 160: one loop iteration; the
\* attempt fails or is answered
IndexTryTarget ==
  /\ ix.pc = "loop"
  /\ IF LoopContinues(ix.attempt, ix.n)
     THEN LET targetIndex ==
                Int64Rem(Int64Add(ix.startIndex, Int64Of(ix.attempt)), ix.n)
          IN
          IF targetIndex \notin 0..(ix.n - 1)
          THEN ix' = [ix EXCEPT !.targetIndex = targetIndex, !.pc = "panic"]
          ELSE \E ok \in BOOLEAN :
                 ix' = [ix EXCEPT
                          !.targetIndex = targetIndex,
                          !.attempt = IF ok THEN @ ELSE @ + 1,
                          !.served = IF ok THEN @ + 1 ELSE @,
                          !.pc = IF ok THEN "idle" ELSE "loop"]
     ELSE ix' = [ix EXCEPT !.served = @ + 1, !.pc = "idle"]
  /\ UNCHANGED <<proxyVars, cls, poolVars, logVars, val, ld, pair, snap,
                 page, lg>>

InitIndex ==
  /\ ProxyOff
  /\ cls = NoError("")
  /\ InitErrorPool
  /\ InitLogger
  /\ val = NoValidation
  /\ ld = NoLoad
  /\ pair = NoPair
  /\ snap = NoSnapshot
  /\ page = NoPage
  /\ lg = NoLogger
  /\ \E c \in CounterValues, n \in 1..MaxPool :
       ix = [current |-> c, n |-> n, pc |-> "idle", startIndex |-> Int64Of(0),
             attempt |-> 0, targetIndex |-> 0, served |-> 0]

NextIndex ==
  \/ IndexServeHTTP
  \/ IndexTryTarget

SpecIndex == InitIndex /\ [][NextIndex]_vars

(***************************************************************************)
(* SpecStats: the Proxy of Spec serving a request and a competing request  *)
(* while another goroutine calls GetStats once.  GetStats copies the       *)
(* counters with one atomic.LoadInt64 per field, position by position, in  *)
(* the order the fields are written in its struct literal; steps of the    *)
(* requests may come between any two loads.                                *)
(***************************************************************************)
\* the order of the loads in the struct literal of lines 197-201
NextField(f) ==
  CASE f = "Requests" -> "Successes"
    [] f = "Successes" -> "Failures"
    [] f = "Failures" -> "Requests"

\* GetStats line 194: stats := make([]TargetStats, len(p.stats))
GetStatsCall ==
  /\ phase = "serving"
  /\ snap.pc = "idle"
  /\ snap' = [pc |-> IF Len(stats) = 0 THEN "returned" ELSE "load",
              i |-> 0, field |-> "Requests",
              out |-> [k \in 1..Len(stats) |-> ZeroStats]]
  /\ UNCHANGED <<proxyVars, cls, poolVars, logVars, val, ld, pair, ix,
                 page, lg>>

\* GetStats lines 196-204: one atomic.LoadInt64; after the last field of
\* the last position the copy is returned
GetStatsLoad ==
  /\ snap.pc = "load"
  /\ LET v == CASE snap.field = "Requests" -> stats[snap.i + 1].Requests
                [] snap.field = "Successes" -> stats[snap.i + 1].Successes
                [] snap.field = "Failures" -> stats[snap.i + 1].Failures
         out == CASE snap.field = "Requests" ->
                       [snap.out EXCEPT ![snap.i + 1].Requests = v]
                  [] snap.field = "Successes" ->
                       [snap.out EXCEPT ![snap.i + 1].Successes = v]
                  [] snap.field = "Failures" ->
                       [snap.out EXCEPT ![snap.i + 1].Failures = v]
         last == snap.field = "Failures"
     IN
     snap' = [pc |-> IF last /\ snap.i + 1 = Len(stats) THEN "returned"
                     ELSE "load",
              i |-> IF last THEN snap.i + 1 ELSE snap.i,
              field |-> NextField(snap.field),
              out |-> out]
  /\ UNCHANGED <<proxyVars, cls, poolVars, logVars, val, ld, pair, ix,
                 page, lg>>

InitStats ==
  /\ \E n \in 1..MaxPool : InitProxy(PoolConfig(n))
  /\ InitRequests(Cardinality(LiveReqs))
  /\ InitHeaders([r \in LiveReqs |-> Request(<<>>)])
  /\ LibIdle

NextStats ==
  \/ \E r \in Reqs : ServeHTTP(r)
  \/ \E r \in Reqs : TryTarget(r)
  \/ \E r \in Reqs : Forward(r)
  \/ \E r \in Reqs : TryReturn(r)
  \/ GetStatsCall
  \/ GetStatsLoad

SpecStats == InitStats /\ [][NextStats]_vars

(***************************************************************************)
(* SpecPage: main from startup on a configuration file with any list of    *)
(* enabled and disabled targets, serving one request and one GET /stats.   *)
(* The /stats handler (cmd/velocity/main.go lines 70-90) calls GetStats    *)
(* and writes one entry per element of the copy it got back.               *)
(***************************************************************************)
PageURLs == {"http://a", "https://b"}

PageConfigs ==
  UNION {[1..n -> {TargetConfig(u, en) : u \in PageURLs, en \in BOOLEAN}] :
           n \in 0..MaxCfgTargets}

\* main.go lines 77-84: entry i of the output takes its target from
\* cfg.Targets[i].URL and its counters from stats[i]
StatsEntry(i, stat) ==
  [target |-> cfgTargets[i].URL, requests |-> stat.Requests,
   successes |-> stat.Successes, failures |-> stat.Failures]

StatsHandlerWrite ==
  /\ snap.pc = "returned"
  /\ ~page.written
  /\ page' = [written |-> TRUE,
              stats |-> [i \in 1..Len(snap.out) |->
                           StatsEntry(i, snap.out[i])]]
  /\ UNCHANGED <<proxyVars, cls, poolVars, logVars, val, ld, pair, ix, snap,
                 lg>>

InitPage ==
  /\ \E c \in PageConfigs :
       cfgFile = [status |-> "loadable", hasTargets |-> TRUE, targets |-> c]
  /\ cfgSource = "none"
  /\ cfgTargets = <<>>
  /\ phase = "boot"
  /\ targets = <<>>
  /\ stats = <<>>
  /\ current = 0
  /\ InitRequests(1)
  /\ InitHeaders([r \in 1..1 |-> Request(<<>>)])
  /\ LibIdle

NextPage ==
  \/ LoadConfig
  \/ Construct
  \/ Listen
  \/ \E r \in Reqs : ServeHTTP(r)
  \/ \E r \in Reqs : TryTarget(r)
  \/ \E r \in Reqs : Forward(r)
  \/ \E r \in Reqs : TryReturn(r)
  \/ GetStatsCall
  \/ GetStatsLoad
  \/ StatsHandlerWrite

SpecPage == InitPage /\ [][NextPage]_vars

(***************************************************************************)
(* SpecBuild: one Config given both to Config.Validate and, as main does   *)
(* with its cfg, to proxy.New.  The two calls are independent of each      *)
(* other and come in either order.                                         *)
(***************************************************************************)
BuildConfigs ==
  {ConfigOf(sv, ts, DefaultConfig.LoadBalancing, DefaultConfig.HealthCheck) :
     sv \in FewServers, ts \in TargetLists}

InitBuild ==
  /\ \E c \in BuildConfigs :
       /\ val = [cfg |-> c, validated |-> FALSE, err |-> ""]
       /\ cfgFile = [status |-> "loadable", hasTargets |-> TRUE,
                     targets |-> c.Targets]
       /\ cfgTargets = c.Targets
  /\ cfgSource = "file"
  /\ phase = "boot"
  /\ targets = <<>>
  /\ stats = <<>>
  /\ current = 0
  /\ InitRequests(0)
  /\ InitHeaders(<<>>)
  /\ cls = NoError("")
  /\ InitErrorPool
  /\ InitLogger
  /\ ld = NoLoad
  /\ pair = NoPair
  /\ ix = NoIndexing
  /\ snap = NoSnapshot
  /\ page = NoPage
  /\ lg = NoLogger

NextBuild ==
  \/ CallValidate
  \/ Construct

SpecBuild == InitBuild /\ [][NextBuild]_vars

(***************************************************************************)
(* SpecLevel: one Logger made by logger.New from a configured level, the   *)
(* loggers derived from it by the With methods, and Debug, Info, Warn,     *)
(* Error and SetLevel calls on any of them.  A record reaches the output   *)
(* when the method passes it to l.slog and the slog handler, whose minimum *)
(* level is the one createHandler was given, accepts it.                   *)
(***************************************************************************)
\* most calls made on the loggers
MaxLevelOps == 3
\* most loggers: the parent and the derived ones
MaxLoggers == 2

\* slog.Level values (logger.go lines 100-103)
LevelDebug == 0 - 4
LevelInfo == 0
LevelWarn == 4
LevelError == 8
Levels == {LevelDebug, LevelInfo, LevelWarn, LevelError}

\* the levels a configuration may name, and one in upper case
ConfigLevels == {"debug", "info", "warn", "error", "fatal", "DEBUG"}

\* parseLevel: a switch on the lower-cased string, default info
parseLevel(level) ==
  CASE ToLower(level) = "debug" -> LevelDebug
    [] ToLower(level) = "info" -> LevelInfo
    [] ToLower(level) \in {"warn", "warning"} -> LevelWarn
    [] ToLower(level) = "error" -> LevelError
    [] OTHER -> LevelInfo

\* updateEnabledFlags: enabled[i] for Debug, Info, Warn, Error
updateEnabledFlags(level) ==
  <<level <= LevelDebug, level <= LevelInfo, level <= LevelWarn,
    level <= LevelError>>

\* the zero value of Logger.enabled
NoFlags == <<FALSE, FALSE, FALSE, FALSE>>

\* position of a level in Logger.enabled
FlagOf(m) ==
  CASE m = LevelDebug -> 1 [] m = LevelInfo -> 2 [] m = LevelWarn -> 3
    [] m = LevelError -> 4

\* logger.New lines 146-180: cfgLevel is the string New was given and
\* lastSet the argument of the last SetLevel call, if any; handler is the
\* minimum level of the slog handler
LoggerNew(cfgLevel) ==
  LET level == parseLevel(IF cfgLevel = "" THEN "info" ELSE cfgLevel) IN
  [cfgLevel |-> cfgLevel, lastSet |-> <<>>, level |-> level,
   handler |-> level, enabled |-> updateEnabledFlags(level),
   logCount |-> 0, skipCount |-> 0, errorCount |-> 0]

\* slog.Logger.log: the handler accepts the levels from its minimum up
HandlerEnabled(l, m) == m >= l.handler

\* Logger.Debug, Info and Warn (lines 419-455)
LoggerGated(id, m) ==
  /\ lg.ops < MaxLevelOps
  /\ LET l == lg.loggers[id] IN
     IF ~l.enabled[FlagOf(m)]
     THEN lg' = [loggers |-> [lg.loggers EXCEPT ![id].skipCount = @ + 1],
                 ops |-> lg.ops + 1,
                 last |-> [op |-> "log", id |-> id, m |-> m,
                           emitted |-> FALSE]]
     ELSE lg' = [loggers |-> [lg.loggers EXCEPT ![id].logCount = @ + 1],
                 ops |-> lg.ops + 1,
                 last |-> [op |-> "log", id |-> id, m |-> m,
                           emitted |-> HandlerEnabled(l, m)]]
  /\ UNCHANGED <<proxyVars, cls, poolVars, logVars, val, ld, pair, ix, snap,
                 page>>

\* Logger.Error (lines 458-464): no test of the enabled flags
LoggerError(id) ==
  /\ lg.ops < MaxLevelOps
  /\ lg' = [loggers |-> [lg.loggers EXCEPT ![id].logCount = @ + 1,
                                           ![id].errorCount = @ + 1],
            ops |-> lg.ops + 1,
            last |-> [op |-> "log", id |-> id, m |-> LevelError,
                      emitted |-> HandlerEnabled(lg.loggers[id], LevelError)]]
  /\ UNCHANGED <<proxyVars, cls, poolVars, logVars, val, ld, pair, ix, snap,
                 page>>

\* Logger.SetLevel (lines 322-325): the handler keeps its minimum level
LoggerSetLevel(id, level) ==
  /\ lg.ops < MaxLevelOps
  /\ lg' = [loggers |-> [lg.loggers EXCEPT
                           ![id].level = level,
                           ![id].lastSet = <<level>>,
                           ![id].enabled = updateEnabledFlags(level)],
            ops |-> lg.ops + 1,
            last |-> [op |-> "SetLevel", id |-> id, m |-> level,
                      emitted |-> FALSE]]
  /\ UNCHANGED <<proxyVars, cls, poolVars, logVars, val, ld, pair, ix, snap,
                 page>>

\* WithComponent, WithRequestID, WithTraceID and WithFields (lines
\* 328-381): a struct literal that copies level and wraps l.slog, and
\* leaves enabled and the counters at their zero value
WithMethods == {"WithComponent", "WithRequestID", "WithTraceID", "WithFields"}

LoggerWith(id, method) ==
  /\ lg.ops < MaxLevelOps
  /\ Len(lg.loggers) < MaxLoggers
  /\ LET l == lg.loggers[id] IN
     lg' = [loggers |-> Append(lg.loggers,
                          [cfgLevel |-> l.cfgLevel, lastSet |-> l.lastSet,
                           level |-> l.level, handler |-> l.handler,
                           enabled |-> NoFlags, logCount |-> 0,
                           skipCount |-> 0, errorCount |-> 0]),
            ops |-> lg.ops + 1,
            last |-> [op |-> method, id |-> id, m |-> 0,
                      emitted |-> FALSE]]
  /\ UNCHANGED <<proxyVars, cls, poolVars, logVars, val, ld, pair, ix, snap,
                 page>>

InitLevel ==
  /\ ProxyOff
  /\ cls = NoError("")
  /\ InitErrorPool
  /\ InitLogger
  /\ val = NoValidation
  /\ ld = NoLoad
  /\ pair = NoPair
  /\ ix = NoIndexing
  /\ snap = NoSnapshot
  /\ page = NoPage
  /\ \E c \in ConfigLevels :
       lg = [loggers |-> <<LoggerNew(c)>>, ops |-> 0,
             last |-> [op |-> "New", id |-> 1, m |-> 0, emitted |-> FALSE]]

NextLevel ==
  \/ \E id \in DOMAIN lg.loggers, m \in Levels \ {LevelError} :
       LoggerGated(id, m)
  \/ \E id \in DOMAIN lg.loggers : LoggerError(id)
  \/ \E id \in DOMAIN lg.loggers, level \in Levels : LoggerSetLevel(id, level)
  \/ \E id \in DOMAIN lg.loggers, method \in WithMethods :
       LoggerWith(id, method)

SpecLevel == InitLevel /\ [][NextLevel]_vars

(***************************************************************************)
(* Vocabulary of the properties.                                           *)
(***************************************************************************)
Started == {r \in Reqs : pc[r] # "idle"}
Done(r) == pc[r] = "done"
Quiescent == \A r \in Started : Done(r)
AllFailed(r) == \A k \in DOMAIN tried[r] : ~tried[r][k].ok
NoneFailed(r) == \A k \in DOMAIN tried[r] : tried[r][k].ok
Indices(r) == [k \in DOMAIN tried[r] |-> tried[r][k].index]
Attempts == UNION {{<<r, k>> : k \in DOMAIN tried[r]} : r \in Reqs}
AttemptsAt(i) == {a \in Attempts : tried[a[1]][a[2]].index = i}
Stat(req, succ, fail) ==
  [Requests |-> req, Successes |-> succ, Failures |-> fail]
\* attempts counted in Requests whose outcome is not yet counted
InFlight(i) ==
  Cardinality({r \in Reqs :
     /\ pc[r] \in {"forward", "ret"}
     /\ Idx(r) = i})

\* the sum of a sequence of numbers
RECURSIVE SumSeq(_)
SumSeq(q) == IF q = <<>> THEN 0 ELSE Head(q) + SumSeq(Tail(q))

\* the events of one kind a request has emitted, in order
EventsOf(r, e) == SelectSeq(events[r], LAMBDA x : x.ev = e)

\* the entries of a target list that are enabled
EnabledOf(ts) == SelectSeq(ts, LAMBDA t : t.Enabled)

\* the Proxy main holds has a non-empty pool and one counter triple per
\* target, all zero before the listener starts; ServeHTTP has not answered
\* from its empty-pool branch and GetStats has returned one entry per target
PoolShape ==
  /\ phase \in {"constructed", "serving"} =>
       /\ Len(targets) >= 1
       /\ Len(stats) = Len(targets)
  /\ phase = "constructed" =>
       \A i \in 1..Len(stats) : stats[i] = ZeroStats
  /\ \A r \in Reqs : \A k \in 1..Len(resp[r]) :
       resp[r][k].error # "No targets available"
  /\ snap.pc = "returned" => Len(snap.out) = Len(targets)

\* a step of a constructed Proxy keeps the pool and the number of triples
PoolFrame ==
  phase \in {"constructed", "serving"} =>
    /\ targets' = targets
    /\ Len(stats') = Len(stats)

\* the counters of GetErrorMetrics add up
MetricsAddUp ==
  errMetrics.CreateCount = errMetrics.PoolHits + errMetrics.PoolMisses

\* a New call that takes its object out of errorPool counts a pool hit
ReuseIsHit ==
  (errMetrics'.CreateCount = errMetrics.CreateCount + 1 /\ errPool' # errPool)
    => errMetrics'.PoolHits = errMetrics.PoolHits + 1

\* the level above error a configuration may name
LevelFatal == LevelError + 4

\* the level a logger was asked to log at: the argument of its last
\* SetLevel call, else the level its configuration names
AskedLevel(l) ==
  IF l.lastSet # <<>> THEN l.lastSet[1]
  ELSE CASE ToLower(l.cfgLevel) = "debug" -> LevelDebug
         [] ToLower(l.cfgLevel) = "info" -> LevelInfo
         [] ToLower(l.cfgLevel) = "warn" -> LevelWarn
         [] ToLower(l.cfgLevel) = "error" -> LevelError
         [] ToLower(l.cfgLevel) = "fatal" -> LevelFatal

\* the last call was a log call, and it emitted only at or above the level
\* asked of its logger
EmitsAtOrAbove ==
  (lg.last.op = "log" /\ lg.last.emitted) =>
    lg.last.m >= AskedLevel(lg.loggers[lg.last.id])

\* a Debug, Info or Warn call that emits nothing adds one to skipCount and
\* nothing to logCount
SuppressedIsSkipped ==
  (/\ lg' # lg
   /\ lg'.last.op = "log"
   /\ lg'.last.m # LevelError
   /\ ~lg'.last.emitted) =>
    LET id == lg'.last.id IN
    /\ lg'.loggers[id].skipCount = lg.loggers[id].skipCount + 1
    /\ lg'.loggers[id].logCount = lg.loggers[id].logCount

\* whether a call at level m on logger l produces output
Emits(l, m) ==
  IF m = LevelError THEN HandlerEnabled(l, m)
  ELSE l.enabled[FlagOf(m)] /\ HandlerEnabled(l, m)

\* a step in which request r enters ServeHTTP
Arrives(r) == pc[r] = "idle" /\ pc'[r] # "idle"

\* every started request holds the counter value it took
StartIndexAssigned ==
  /\ current = Cardinality(Started)
  /\ \A r \in Started :
       /\ startIndex[r] = r - 1
       /\ tried[r] # <<>> => tried[r][1].index = (r - 1) % N

\* what one step may do to the counter and to the start indices
CounterStep ==
  /\ \A r \in Reqs :
       Arrives(r) => (startIndex'[r] = current /\ current' = current + 1)
  /\ (\A r \in Reqs : ~Arrives(r)) => current' = current
  /\ \A r \in Started : startIndex'[r] = startIndex[r]

(***************************************************************************)
(* C1 - Failover order and accounting: on a pool [A, B, C] where every     *)
(* attempt on A and on B fails at transport level and every attempt on C   *)
(* succeeds, the only request handled so far, which starts at A, has       *)
(* attempted exactly A, B, C in that order when it completes and has left  *)
(* requests = 1 everywhere, failures = 1 at A and B, successes = 1 at C    *)
(* and every other counter 0.                                              *)
(***************************************************************************)
C1_FailoverOrder ==
  \A r \in Reqs :
    ( /\ N = 3
      /\ Done(r)
      /\ \A q \in Reqs \ {r} : pc[q] = "idle"
      /\ startIndex[r] = 0
      /\ \A k \in DOMAIN tried[r] :
            tried[r][k].ok <=> tried[r][k].index = 2 )
    => /\ Indices(r) = <<0, 1, 2>>
       /\ stats = <<Stat(1, 0, 1), Stat(1, 0, 1), Stat(1, 1, 0)>>

C1_Witness ==
  /\ N = 3
  /\ Done(1)
  /\ \A q \in Reqs \ {1} : pc[q] = "idle"
  /\ Len(tried[1]) = 3
  /\ ~tried[1][1].ok /\ ~tried[1][2].ok /\ tried[1][3].ok

(***************************************************************************)
(* C2 - Round-robin fairness: after M = k*N requests handled one after     *)
(* another, none of whose attempts failed, every pool position has         *)
(* requests = successes = k and failures = 0.                              *)
(***************************************************************************)
C2_RoundRobinFairness ==
  LET M == Cardinality(Started) IN
  ( /\ Quiescent
    /\ \A r \in Started : NoneFailed(r)
    /\ M % N = 0 )
  => \A i \in 1..N : stats[i] = Stat(M \div N, M \div N, 0)

C2_Witness ==
  /\ N = 2
  /\ Quiescent
  /\ Cardinality(Started) = 4
  /\ \A r \in Started : NoneFailed(r)
  /\ stats[1].Requests = 2 /\ stats[2].Requests = 2

(***************************************************************************)
(* C3 - Exhaustion terminality: a completed request with start index s     *)
(* all of whose attempts failed has attempted each of the N positions      *)
(* exactly once, in the order s mod N, (s+1) mod N, ..., and its client    *)
(* received exactly one 502 error naming the host of                       *)
(* pool[(s + N - 1) mod N]; when every request handled so far ended that   *)
(* way, each position has one request and one failure per request and no   *)
(* successes.                                                              *)
(***************************************************************************)
C3_ExhaustionTerminal ==
  /\ \A r \in Reqs :
       (Done(r) /\ AllFailed(r)) =>
         /\ Len(tried[r]) = N
         /\ \A k \in 1..N : tried[r][k].index = (startIndex[r] + k - 1) % N
         /\ Len(resp[r]) = 1
         /\ resp[r][1].kind = "error"
         /\ resp[r][1].status = 502
         /\ resp[r][1].last_target =
              targets[((startIndex[r] + N - 1) % N) + 1].Host
  /\ (Quiescent /\ \A r \in Started : AllFailed(r)) =>
       \A i \in 1..N :
         stats[i] = Stat(Cardinality(Started), 0, Cardinality(Started))

C3_Witness ==
  /\ N = 2
  /\ Done(1) /\ Done(2)
  /\ AllFailed(1) /\ AllFailed(2)
  /\ startIndex[2] = 1
  /\ resp[2][1].last_target = "a"

(***************************************************************************)
(* C4 - Non-retriable failures stop the dispatch: once an attempt of a     *)
(* request has failed with an error whose code is not retriable, the       *)
(* terminal error body has been written to the client and the request      *)
(* makes no further attempt.                                               *)
(***************************************************************************)
C4_NonRetriableStops ==
  \A r \in Reqs : \A k \in DOMAIN tried[r] :
    (~tried[r][k].ok /\ ~IsRetriable(tried[r][k].code)) =>
      /\ k = Len(tried[r])
      /\ pc[r] \in {"loop", "done"}
      /\ Len(resp[r]) = 1
      /\ resp[r][1].kind = "error"

(***************************************************************************)
(* C5 - Per-position counter invariant: in every state and at every pool   *)
(* position, requests - (successes + failures) is exactly the number of    *)
(* attempts in flight at that position (so it is never negative, and zero  *)
(* when nothing is in flight there).                                       *)
(***************************************************************************)
C5_CounterInvariant ==
  \A i \in 0..(N - 1) :
    stats[i + 1].Requests - (stats[i + 1].Successes + stats[i + 1].Failures)
      = InFlight(i)

C5_Witness ==
  \E i, j \in 0..(N - 1) :
    /\ InFlight(i) = 2
    /\ stats[j + 1].Failures >= 1

(***************************************************************************)
(* C6 - Per-request outcome accounting: a completed request made between 1 *)
(* and N attempts at pairwise distinct positions; every attempt but the    *)
(* last failed, and the last either succeeded or was the N-th failure.     *)
(* The counters hold exactly these outcomes: at every position, failures   *)
(* is the number of failed attempts made there, successes the number of    *)
(* completed requests whose last attempt succeeded there, and requests the *)
(* number of attempts made or being forwarded there.                       *)
(***************************************************************************)
C6_OutcomeAccounting ==
  /\ \A r \in Reqs : Done(r) =>
       LET L == Len(tried[r]) IN
       /\ L \in 1..N
       /\ \A j, k \in 1..L : j # k => tried[r][j].index # tried[r][k].index
       /\ \A k \in 1..(L - 1) : ~tried[r][k].ok
       /\ tried[r][L].ok \/ L = N
  /\ \A i \in 0..(N - 1) :
       /\ stats[i + 1].Failures =
            Cardinality({a \in AttemptsAt(i) : ~tried[a[1]][a[2]].ok})
       /\ stats[i + 1].Successes =
            Cardinality({a \in AttemptsAt(i) :
                           tried[a[1]][a[2]].ok /\ Done(a[1])})
       /\ stats[i + 1].Requests =
            Cardinality(AttemptsAt(i))
              + Cardinality({r \in Reqs : pc[r] = "forward" /\ Idx(r) = i})

C6_Witness ==
  /\ N = 2
  /\ Done(1) /\ Done(2)
  /\ Len(tried[1]) = 2 /\ AllFailed(1)
  /\ Len(tried[2]) = 2 /\ tried[2][2].ok

(***************************************************************************)
(* C7 - Only the final fault reaches the client: at most one response is   *)
(* ever written per request and a completed request has exactly one.  It   *)
(* is either the response of the backend of the attempt that succeeded or  *)
(* the 502 of the error hook of the N-th attempt; while all attempts made  *)
(* so far failed and fewer than N were made, nothing has been written.     *)
(***************************************************************************)
C7_OnlyFinalFault ==
  \A r \in Reqs :
    LET L == Len(tried[r]) IN
    /\ Len(resp[r]) <= 1
    /\ Done(r) => Len(resp[r]) = 1
    /\ (AllFailed(r) /\ L < N) => resp[r] = <<>>
    /\ resp[r] # <<>> =>
         /\ L >= 1
         /\ resp[r][1].last_target = targets[tried[r][L].index + 1].Host
         /\ \/ /\ resp[r][1].kind = "backend"
               /\ tried[r][L].ok
               /\ resp[r][1].status = tried[r][L].status
            \/ /\ resp[r][1].kind = "error"
               /\ resp[r][1].status = 502
               /\ L = N
               /\ AllFailed(r)

C7_Witness ==
  \E r \in Reqs :
    /\ N = 2
    /\ pc[r] = "loop"
    /\ Len(tried[r]) = 1
    /\ AllFailed(r)
    /\ resp[r] = <<>>

(***************************************************************************)
(* C8 - Concurrent distribution: in every interleaving the requests that   *)
(* have taken the round-robin counter hold pairwise distinct start values  *)
(* which are exactly 0 .. (number of such requests - 1), and the counter   *)
(* equals their number; once k*N concurrent requests without a failing     *)
(* attempt have all completed, every position has exactly k requests.      *)
(***************************************************************************)
C8_ConcurrentDistribution ==
  LET Taken == {r \in Reqs : pc[r] # "idle"}
      M == Cardinality(Taken)
  IN
  /\ \A q, r \in Taken : q # r => startIndex[q] # startIndex[r]
  /\ {startIndex[r] : r \in Taken} = 0..(M - 1)
  /\ current = M
  /\ ( /\ \A r \in Reqs : Done(r) /\ NoneFailed(r)
       /\ Cardinality(Reqs) % N = 0 )
     => \A i \in 1..N : stats[i].Requests = Cardinality(Reqs) \div N

C8_Witness ==
  /\ N = 2
  /\ \A r \in Reqs : NoneFailed(r)
  /\ pc[1] = "forward" /\ pc[2] = "forward"
  /\ stats[1].Requests = 1 /\ stats[2].Requests = 1

(***************************************************************************)
(* C9 - Pool contents: whenever New accepts a target list, the pool is     *)
(* exactly the parsed URLs of the entries with enabled = true, in          *)
(* configuration order, with one counter triple per pool entry; every      *)
(* dispatch attempt and every attempt event goes to a pool position, that  *)
(* is to an enabled entry.                                                 *)
(***************************************************************************)
EnabledEntries == SelectSeq(cfgTargets, LAMBDA t : t.Enabled)

C9_PoolContents ==
  phase = "serving" =>
    /\ Len(targets) = Len(EnabledEntries)
    /\ Len(stats) = Len(EnabledEntries)
    /\ \A i \in 1..Len(targets) :
         /\ ~urlParse(EnabledEntries[i].URL).err
         /\ targets[i].Scheme = urlParse(EnabledEntries[i].URL).Scheme
         /\ targets[i].Host = urlParse(EnabledEntries[i].URL).Host
    /\ \A r \in Reqs :
         /\ \A k \in DOMAIN tried[r] :
              tried[r][k].index + 1 \in 1..Len(EnabledEntries)
         /\ \A k \in DOMAIN events[r] :
              events[r][k].ev = "LogProxy" =>
                \E i \in 1..Len(EnabledEntries) :
                  events[r][k].host = urlParse(EnabledEntries[i].URL).Host

C9_Witness ==
  /\ phase = "serving"
  /\ Len(cfgTargets) = 2
  /\ ~cfgTargets[1].Enabled /\ cfgTargets[1].URL = "http://a"
  /\ cfgTargets[2].Enabled /\ cfgTargets[2].URL = "https://b"
  /\ Len(targets) = 1
  /\ Done(1)
  /\ Len(tried[1]) = 1 /\ tried[1][1].index = 0

(***************************************************************************)
(* C10 - Empty pool is a construction error: New fails whenever the target *)
(* list is empty or has no enabled entry, and it fails only then or when   *)
(* an enabled entry has a URL that does not parse; a disabled entry,       *)
(* whatever its URL, never makes New fail.  A failed New yields no Proxy:  *)
(* no pool and no request served.                                          *)
(***************************************************************************)
C10_EmptyPoolIsError ==
  phase # "boot" =>
    /\ phase = "failed" <=>
         \/ Len(EnabledEntries) = 0
         \/ \E i \in 1..Len(EnabledEntries) :
              urlParse(EnabledEntries[i].URL).err
    /\ phase = "failed" =>
         /\ targets = <<>>
         /\ \A r \in Reqs : pc[r] = "idle"

C10_Witness ==
  /\ phase = "serving"
  /\ \E i \in 1..Len(cfgTargets) :
       ~cfgTargets[i].Enabled /\ urlParse(cfgTargets[i].URL).err
  /\ Done(1)

(***************************************************************************)
(* C11 - Scheme rejection at pool construction: New fails for any enabled  *)
(* target whose URL scheme is neither http nor https, so the pool of a     *)
(* constructed dispatcher holds only http and https targets.               *)
(***************************************************************************)
C11_SchemeRejection ==
  /\ phase \notin {"boot", "failed"} =>
       \A i \in 1..Len(targets) : targets[i].Scheme \in {"http", "https"}
  /\ ( /\ phase # "boot"
       /\ \E i \in 1..Len(EnabledEntries) :
            urlParse(EnabledEntries[i].URL).Scheme \notin {"http", "https"} )
     => phase = "failed"

(***************************************************************************)
(* C12 - X-Forwarded-For preservation: on every attempt the request the    *)
(* backend is sent still carries every element of the X-Forwarded-For the  *)
(* client sent; when the client sent none, the header is set from the      *)
(* client address.                                                         *)
(***************************************************************************)
C12_ForwardedForPreserved ==
  \A r \in Reqs : \A k \in DOMAIN tried[r] :
    LET sent == request[r].Header.XForwardedFor
        out == tried[r][k].xff
    IN /\ \A j \in DOMAIN sent : \E m \in DOMAIN out : out[m] = sent[j]
       /\ sent = <<>> =>
            /\ out # <<>>
            /\ \A m \in DOMAIN out :
                 out[m] \in {request[r].RemoteAddr,
                             ClientIP(request[r].RemoteAddr)}

(***************************************************************************)
(* C13 - Application-level errors are not failover triggers: an attempt    *)
(* that a backend answered, with whatever status, is the last attempt of   *)
(* its request; the client has received exactly the backend's response     *)
(* with the backend's status; once the request has returned the attempt is *)
(* counted in successes at its position, and it is never counted in        *)
(* failures.                                                               *)
(***************************************************************************)
C13_StatusPassThrough ==
  /\ \A r \in Reqs : \A k \in DOMAIN tried[r] :
       tried[r][k].ok =>
         /\ k = Len(tried[r])
         /\ pc[r] \in {"ret", "done"}
         /\ attempt[r] = k - 1
         /\ resp[r] = BackendWrite(targets[tried[r][k].index + 1].Host,
                                   tried[r][k].status)
  /\ \A i \in 0..(N - 1) :
       LET answered == {a \in AttemptsAt(i) : tried[a[1]][a[2]].ok} IN
       /\ stats[i + 1].Successes =
            Cardinality({a \in answered : Done(a[1])})
       /\ stats[i + 1].Failures =
            Cardinality(AttemptsAt(i)) - Cardinality(answered)

C13_Witness ==
  /\ N = 2
  /\ Done(1) /\ Done(2)
  /\ tried[1] # <<>> /\ tried[2] # <<>>
  /\ tried[1][1].ok /\ tried[1][1].status = 500
  /\ tried[2][1].ok /\ tried[2][1].status = 404
  /\ stats = <<Stat(1, 1, 0), Stat(1, 1, 0)>>

(***************************************************************************)
(* C14 - Dispatch terminates: every request that has entered ServeHTTP     *)
(* eventually returns, with exactly one response written to the client and *)
(* after at most N forwarding attempts, whatever the pool size, the        *)
(* outcomes of the attempts and the steps of the other requests.           *)
(***************************************************************************)
C14_DispatchTerminates ==
  \A r \in LiveReqs :
    (pc[r] # "idle") ~>
      (pc[r] = "done" /\ Len(resp[r]) = 1 /\ Len(tried[r]) \in 1..N)

C14_Witness ==
  /\ N = 2
  /\ Done(1) /\ Len(tried[1]) = 2 /\ AllFailed(1) /\ Len(resp[1]) = 1
  /\ pc[2] = "forward" /\ Len(tried[2]) = 1

(***************************************************************************)
(* C15 - Status-code mapping, as amended: every error New creates has      *)
(* exactly one status, fixed by its code: a 4xx status for the client,     *)
(* rate-limit and auth codes; 502 for upstream error, upstream timeout,    *)
(* upstream unavailable, circuit breaker open and no healthy targets; 503  *)
(* for upstream overloaded, load-balancer error, health check failed,      *)
(* health check timeout and target unhealthy; 500 for every other code,    *)
(* declared or not.                                                        *)
(***************************************************************************)
C15_StatusMapping ==
  cls.created =>
    /\ cls.Code \in ClientFaultCodes <=> cls.StatusCode \in 400..499
    /\ cls.Code \in {CodeUpstreamError, CodeUpstreamTimeout,
                     CodeUpstreamUnavailable, CodeCircuitBreakerOpen,
                     CodeNoHealthyTargets}
         <=> cls.StatusCode = 502
    /\ cls.Code \in ({CodeUpstreamOverloaded, CodeLoadBalancerError}
                       \cup HealthCheckCodes)
         <=> cls.StatusCode = 503
    /\ cls.Code \in (GatewayCodes
                       \cup {CodeRoutingError, CodeUpstreamProtocol,
                             CodeUndeclared})
         <=> cls.StatusCode = 500
    /\ cls.StatusCode \in (400..499) \cup {500, 502, 503}

C15_Witness ==
  /\ cls.created
  /\ cls.Code = CodeNoHealthyTargets
  /\ cls.StatusCode = 502

\* C15 as stated: 4xx for the client-fault codes, 502 for the upstream
\* unavailability classes, 503 for the overload and no-healthy-targets
\* classes, 500 for the internal and the undeclared codes.
C15_StatusMappingAsStated ==
  cls.created =>
    /\ cls.Code \in ClientFaultCodes => cls.StatusCode \in 400..499
    /\ cls.Code \in {CodeUpstreamError, CodeUpstreamTimeout,
                     CodeUpstreamUnavailable}
         => cls.StatusCode = 502
    /\ cls.Code \in {CodeUpstreamOverloaded, CodeNoHealthyTargets}
         => cls.StatusCode = 503
    /\ cls.Code \in (GatewayCodes \cup {CodeUndeclared})
         => cls.StatusCode = 500

(***************************************************************************)
(* C16 - Classifier taxonomy: upstream timeout is retriable with a delay   *)
(* of 1 s, upstream unavailable retriable with 2 s, upstream overloaded    *)
(* retriable with 5 s; no healthy targets is not retriable and critical;   *)
(* a bad client request is not retriable, has a 4xx status and a retry     *)
(* delay of zero.                                                          *)
(***************************************************************************)
C16_Taxonomy ==
  LET retriable == "IsRetriable" \in cls.asked => cls.Retriable
      terminal == "IsRetriable" \in cls.asked => ~cls.Retriable
      delay(ms) == "GetRetryDelay" \in cls.asked => cls.Delay = ms
  IN
  cls.created =>
    /\ cls.Code = CodeUpstreamTimeout => retriable /\ delay(1000)
    /\ cls.Code = CodeUpstreamUnavailable => retriable /\ delay(2000)
    /\ cls.Code = CodeUpstreamOverloaded => retriable /\ delay(5000)
    /\ cls.Code = CodeNoHealthyTargets =>
         terminal /\ cls.Severity = SeverityCritical
    /\ cls.Code = CodeBadRequest =>
         terminal /\ cls.StatusCode \in 400..499 /\ delay(0)

(***************************************************************************)
(* C17 - Classification is deterministic and stateless: any two errors     *)
(* created with the same code, whatever New, Release and WithContext calls *)
(* came before or between their creations and whether their objects are    *)
(* fresh or reused, have the same status code, the same severity and the   *)
(* same retriability verdict, namely the ones the tables give for the      *)
(* code.                                                                   *)
(***************************************************************************)
C17_ClassificationStateless ==
  \A i, j \in DOMAIN errObjs :
    errObjs[i].Code = errObjs[j].Code =>
      /\ errObjs[i].StatusCode = errObjs[j].StatusCode
      /\ errObjs[i].Severity = errObjs[j].Severity
      /\ IsRetriable(errObjs[i].Code) = IsRetriable(errObjs[j].Code)
      /\ errObjs[i].StatusCode \in {400, 502, 503}
      /\ errObjs[i].StatusCode = 400 <=> errObjs[i].Code = CodeBadRequest

C17_Witness ==
  /\ Len(errObjs) = 2
  /\ errMetrics.CreateCount = 3
  /\ errObjs[1].Code = CodeBadRequest /\ errObjs[2].Code = CodeBadRequest
  /\ errObjs[1].pooled = 1 /\ errObjs[2].pooled = 1
  /\ errObjs[1].Context = {} /\ errObjs[2].Context = {"target"}
  /\ errOwned[1] = {2} /\ errOwned[2] = {1}

(***************************************************************************)
(* C18 - No request blocks on another: a goroutine that handles a request  *)
(* and makes a logging call is never at a lock that the goroutine of       *)
(* another request holds.                                                  *)
(***************************************************************************)
C18_NoBlocking ==
  \A g \in LogWriters :
    logPc[g] = "lock" => bwMu \in {0, g}

(***************************************************************************)
(* C19 - Startup gating: when proxy.New fails on the configuration main    *)
(* has, the process never reaches the listener: it is still before New or  *)
(* it has terminated, no request has entered ServeHTTP and no response has *)
(* been written.                                                           *)
(***************************************************************************)
C19_StartupGating ==
  (cfgSource # "none" /\ New(cfgTargets).err # "") =>
    /\ phase \in {"boot", "failed"}
    /\ \A r \in Reqs : pc[r] = "idle" /\ resp[r] = <<>>

C19_Witness ==
  /\ phase = "failed"
  /\ cfgSource = "file"
  /\ New(cfgTargets).err = "no enabled targets configured"
  /\ Len(cfgTargets) = 2

(***************************************************************************)
(* C20 - Dispatcher input is validated: on every startup path the target   *)
(* list proxy.New has been called with passes the target checks of         *)
(* Config.Validate: it is non-empty, every entry has an http or https URL  *)
(* and at least one entry is enabled.                                      *)
(***************************************************************************)
C20_InputValidated ==
  phase # "boot" =>
    /\ ValidateTargets(cfgTargets) = ""
    /\ Len(cfgTargets) > 0
    /\ \A i \in 1..Len(cfgTargets) :
         /\ ~urlParse(cfgTargets[i].URL).err
         /\ urlParse(cfgTargets[i].URL).Scheme \in {"http", "https"}
    /\ \E i \in 1..Len(cfgTargets) : cfgTargets[i].Enabled

(***************************************************************************)
(* C21 - Event emission per request: the k-th attempt of a request emits   *)
(* exactly one attempt event, which carries the host of the attempted      *)
(* target, the 1-based attempt number k and the pool size; every failed    *)
(* attempt emits exactly one failure event; a request that has not         *)
(* returned has emitted no outcome event and a request that has returned   *)
(* exactly one: a success event for the target that served it when its     *)
(* last attempt was answered, a pool-exhaustion event when all N attempts  *)
(* failed, never both.                                                     *)
(***************************************************************************)
C21_EventEmission ==
  \A r \in Reqs :
    LET L == Len(tried[r])
        made == L + (IF pc[r] = "forward" THEN 1 ELSE 0)
        att == EventsOf(r, "LogProxy")
        fail == EventsOf(r, "LogProxyFailure")
        succ == EventsOf(r, "LogProxySuccess")
        exh == EventsOf(r, "LogAllTargetsFailed")
    IN
    /\ Len(att) = made
    /\ \A k \in 1..made :
         /\ att[k].attempt = k
         /\ att[k].total = N
         /\ att[k].host = targets[((startIndex[r] + k - 1) % N) + 1].Host
    /\ Len(fail) = Cardinality({k \in 1..L : ~tried[r][k].ok})
    /\ Len(succ) + Len(exh) = (IF Done(r) THEN 1 ELSE 0)
    /\ Len(succ) = 1 =>
         /\ tried[r][L].ok
         /\ succ[1].host = targets[tried[r][L].index + 1].Host
    /\ Len(exh) = 1 => (L = N /\ AllFailed(r))

C21_Witness ==
  /\ N = 2
  /\ Done(1) /\ Done(2)
  /\ Len(tried[1]) = 2 /\ AllFailed(1)
  /\ Len(EventsOf(1, "LogAllTargetsFailed")) = 1
  /\ Len(tried[2]) = 2 /\ tried[2][2].ok
  /\ Len(EventsOf(2, "LogProxy")) = 2
  /\ Len(EventsOf(2, "LogProxyFailure")) = 1
  /\ Len(EventsOf(2, "LogProxySuccess")) = 1

(***************************************************************************)
(* C22 - Terminal failure body: the JSON body of every terminal failure    *)
(* written to a client has the four keys error, message, last_target and   *)
(* request_id, with a non-empty error category, a non-empty message and    *)
(* the host of the last attempted target.                                  *)
(***************************************************************************)
C22_TerminalBody ==
  \A r \in Reqs : \A k \in DOMAIN resp[r] :
    resp[r][k].kind = "error" =>
      /\ {"error", "message", "last_target", "request_id"}
            \subseteq resp[r][k].keys
      /\ resp[r][k].error # ""
      /\ resp[r][k].message # ""
      /\ tried[r] # <<>>
      /\ resp[r][k].last_target =
           targets[tried[r][Len(tried[r])].index + 1].Host

C24_Precedence ==
  LET e == ld.env
      f == IF ld.fn = "LoadFromFile" THEN ld.file ELSE EmptyDocument
      d == DefaultConfig
      pick(envval, fileval, def) ==
        IF envval # <<>> THEN envval[1]
        ELSE IF fileval # <<>> THEN fileval[1] ELSE def
      opt(str, v) == IF str = "" THEN <<>> ELSE <<v>>
      integers == {"9090", "0", "70000"}
      number(str) == CASE str = "9090" -> 9090 [] str = "0" -> 0
                       [] str = "70000" -> 70000 [] OTHER -> 0
      levels == {"DEBUG", "error"}
      lower(str) == IF str = "DEBUG" THEN "debug" ELSE str
      switches == {"OFF", "1"}
      badOverride ==
        \/ e.SERVER_PORT # "" /\ e.SERVER_PORT \notin integers
        \/ e.SERVER_PORT \in integers
             /\ number(e.SERVER_PORT) \notin 1..65535
        \/ e.LOGGING_LEVEL # "" /\ e.LOGGING_LEVEL \notin levels
        \/ e.HEALTH_CHECK_ENABLED # "" /\ e.HEALTH_CHECK_ENABLED \notin switches
  IN
  ld.called =>
    /\ badOverride => (ld.err # "" /\ ld.cfg = <<>>)
    /\ ld.err # "" <=> ld.cfg = <<>>
    /\ ld.cfg # <<>> =>
         LET c == ld.cfg[1] IN
         /\ c.Server.Host = pick(opt(e.SERVER_HOST, e.SERVER_HOST), f.Host,
                                 d.Server.Host)
         /\ c.Server.Port = pick(opt(e.SERVER_PORT, number(e.SERVER_PORT)),
                                 f.Port, d.Server.Port)
         /\ c.Logging.Level = pick(opt(e.LOGGING_LEVEL, lower(e.LOGGING_LEVEL)),
                                   f.Level, d.Logging.Level)
         /\ c.HealthCheck.Enabled =
              pick(opt(e.HEALTH_CHECK_ENABLED, e.HEALTH_CHECK_ENABLED = "1"),
                   f.HealthCheckEnabled, d.HealthCheck.Enabled)
         /\ ConfigValidate(c) = ""

(***************************************************************************)
(* C25 - Attempt sequence of one request: the k-th attempt of a request    *)
(* with start index s, made or being forwarded, is at position             *)
(* (s + k - 1) mod N, so the positions are visited in cyclic order with    *)
(* none skipped; no position is attempted twice and at most N attempts are *)
(* made; a request that starts at the last position and fails there makes  *)
(* its next attempt at position 0.                                         *)
(***************************************************************************)
C25_AttemptSequence ==
  \A r \in Started :
    LET L == Len(tried[r])
        s == startIndex[r]
    IN
    /\ L <= N
    /\ \A k \in 1..L : tried[r][k].index = (s + k - 1) % N
    /\ \A j, k \in 1..L : j # k => tried[r][j].index # tried[r][k].index
    /\ pc[r] = "forward" =>
         /\ L < N
         /\ attempt[r] = L
         /\ Idx(r) = (s + L) % N
         /\ \A k \in 1..L : tried[r][k].index # Idx(r)
    /\ (s % N = N - 1 /\ L >= 2) =>
         /\ tried[r][1].index = N - 1
         /\ tried[r][2].index = 0

C25_Witness ==
  /\ N = 2
  /\ startIndex[2] = 1
  /\ Done(2)
  /\ Indices(2) = <<1, 0>>
  /\ AllFailed(2)

(***************************************************************************)
(* C26 - Start-index assignment: the round-robin counter starts at 0; a    *)
(* step changes it only when a request enters ServeHTTP, which takes the   *)
(* counter's value as its start index and advances the counter by exactly  *)
(* one; no step of an attempt changes the counter or a start index.  So    *)
(* the j-th request to take the counter (j = 0, 1, ...) holds start index  *)
(* j and makes its first attempt at position j mod N, whatever attempts    *)
(* earlier and concurrent requests made.                                   *)
(***************************************************************************)
C26_StartIndexAssignment == []StartIndexAssigned /\ [][CounterStep]_vars

C26_Witness ==
  /\ N = 2
  /\ current = 2
  /\ Len(tried[1]) = 2 /\ AllFailed(1)
  /\ startIndex[2] = 1
  /\ Len(tried[2]) = 2 /\ tried[2][1].index = 1 /\ tried[2][2].index = 0

(***************************************************************************)
(* C27 - Selection ignores failure history: two dispatchers over the same  *)
(* pool hand the same start index to their j-th request, for every j both  *)
(* have reached, whatever failures each has recorded; the j-th request     *)
(* starts at position (j - 1) mod N even when that position has recorded   *)
(* failures; the pool and its counters keep their N positions.             *)
(***************************************************************************)
C27_SelectionIgnoresHistory ==
  pair # NoPair =>
    /\ \A j \in DOMAIN pair[1].starts \cap DOMAIN pair[2].starts :
         pair[1].starts[j] = pair[2].starts[j]
    /\ pair[1].targets = pair[2].targets
    /\ \A d \in Dispatchers :
         LET n == Len(pair[d].targets) IN
         /\ n >= 1
         /\ Len(pair[d].stats) = n
         /\ \A j \in DOMAIN pair[d].starts :
              GoRem(pair[d].starts[j], n) = (j - 1) % n

\* one instance saw every attempt fail, the other none, and the third
\* request of both started at position 0, which had two recorded failures
\* in the first instance by then
C27_Witness ==
  /\ pair # NoPair
  /\ Len(pair[1].targets) = 2
  /\ Len(pair[1].starts) = 3 /\ Len(pair[2].starts) = 3
  /\ pair[1].stats[1].Failures = 3 /\ pair[1].stats[1].Successes = 0
  /\ pair[2].stats[1].Failures = 0 /\ pair[2].stats[1].Successes = 2
  /\ pair[1].starts[3] = 2 /\ pair[2].starts[3] = 2

(***************************************************************************)
(* C28 - No lost counter updates under concurrency: in every interleaving, *)
(* once every request has returned, the requests counters add up to the    *)
(* number of attempts made, the failures counters to the number of         *)
(* attempts whose error hook fired, and the successes counters plus the    *)
(* number of requests that exhausted the pool to the number of requests.   *)
(***************************************************************************)
C28_NoLostUpdates ==
  (\A r \in Reqs : Done(r)) =>
    /\ SumSeq([i \in 1..N |-> stats[i].Requests]) = Cardinality(Attempts)
    /\ SumSeq([i \in 1..N |-> stats[i].Failures]) =
         Cardinality({a \in Attempts : ~tried[a[1]][a[2]].ok})
    /\ SumSeq([i \in 1..N |-> stats[i].Successes])
         + Cardinality({r \in Reqs : Len(tried[r]) = N /\ AllFailed(r)})
         = Cardinality(Reqs)

C28_Witness ==
  /\ N = 2
  /\ \A r \in Reqs : Done(r)
  /\ Indices(1) = <<0, 1>> /\ tried[1][2].ok
  /\ Indices(2) = <<1, 0>> /\ AllFailed(2)
  /\ stats = <<Stat(2, 0, 2), Stat(2, 1, 1)>>

(***************************************************************************)
(* C29 - Index bounds: whatever value the signed 64-bit counter holds,     *)
(* also after it has overflowed to negative values, the target index       *)
(* computed for every attempt 0..N-1 lies in 0..N-1 and no request panics  *)
(* on an index out of range.                                               *)
(***************************************************************************)
C29_IndexBounds ==
  ix.pc # "off" =>
    /\ ix.pc # "panic"
    /\ ix.targetIndex \in 0..(ix.n - 1)

(***************************************************************************)
(* C30 - Snapshot plausibility: every copy of the counters GetStats        *)
(* returns, also one taken while requests are in flight, has               *)
(* successes + failures <= requests at every position.                     *)
(***************************************************************************)
C30_SnapshotPlausible ==
  snap.pc = "returned" =>
    \A i \in 1..Len(snap.out) :
      snap.out[i].Successes + snap.out[i].Failures <= snap.out[i].Requests

(***************************************************************************)
(* C31 - Statistics are keyed by pool position: for every configuration,   *)
(* also one where a disabled target precedes an enabled one, entry i of    *)
(* the /stats output carries the counters GetStats returned for pool       *)
(* position i and the URL of the target at pool position i.                *)
(***************************************************************************)
C31_StatsKeyedByPosition ==
  page.written =>
    /\ Len(page.stats) = Len(targets)
    /\ \A i \in 1..Len(page.stats) :
         /\ page.stats[i].requests = snap.out[i].Requests
         /\ page.stats[i].successes = snap.out[i].Successes
         /\ page.stats[i].failures = snap.out[i].Failures
         /\ urlParse(page.stats[i].target).Scheme = targets[i].Scheme
         /\ urlParse(page.stats[i].target).Host = targets[i].Host

(***************************************************************************)
(* C32 - Validation implies constructibility: for every Config on which    *)
(* Config.Validate returns nil, proxy.New succeeds, and the pool it builds *)
(* has as many targets as the Config has enabled entries, each with scheme *)
(* http or https.                                                          *)
(***************************************************************************)
C32_ValidImpliesConstructible ==
  (val.validated /\ val.err = "" /\ phase # "boot") =>
    /\ phase = "constructed"
    /\ Len(targets) = Len(EnabledOf(val.cfg.Targets))
    /\ Len(stats) = Len(targets)
    /\ \A i \in 1..Len(targets) : targets[i].Scheme \in {"http", "https"}

\* reached: New has built a pool from a Config Validate accepts that has a
\* disabled entry before an enabled one
C32_Witness ==
  /\ val.validated
  /\ val.err = ""
  /\ phase = "constructed"
  /\ Len(val.cfg.Targets) = 2
  /\ ~val.cfg.Targets[1].Enabled
  /\ Len(targets) = 1

(***************************************************************************)
(* C33 - Pool shape is fixed: every Proxy New returns has at least one     *)
(* target and exactly one counter triple per target, all zero at first; no *)
(* ServeHTTP or GetStats step changes the pool or the number of triples,   *)
(* so ServeHTTP never takes its empty-pool branch and GetStats returns one *)
(* entry per target.                                                       *)
(***************************************************************************)
C33_PoolShapeFixed == []PoolShape /\ [][PoolFrame]_vars

\* reached: on a pool of two targets the request has been answered and
\* GetStats has returned
C33_Witness ==
  /\ phase = "serving"
  /\ Len(targets) = 2
  /\ \E r \in Reqs : Done(r)
  /\ snap.pc = "returned"
  /\ Len(snap.out) = 2

(***************************************************************************)
(* C34 - Retry predicates agree: for every error code, an error New        *)
(* creates with that code (so with its default severity) gives the same    *)
(* answer to ShouldRetry() as to IsRetriable().                            *)
(***************************************************************************)
C34_RetryPredicatesAgree ==
  {"IsRetriable", "ShouldRetry"} \subseteq cls.asked =>
    cls.Retry = cls.Retriable

(***************************************************************************)
(* C35 - Pre-defined errors match the defaults: each pre-defined error     *)
(* value has the StatusCode and the Severity New assigns to an error of    *)
(* the same code, and so the same ShouldRetry result.                      *)
(***************************************************************************)
C35_PredefinedMatchDefaults ==
  /\ cls.StatusCode = getDefaultStatusCode(cls.Code)
  /\ cls.Severity = getDefaultSeverity(cls.Code)
  /\ "ShouldRetry" \in cls.asked =>
       cls.Retry = ShouldRetry(cls.Code, getDefaultSeverity(cls.Code))

(***************************************************************************)
(* C36 - Pooled errors are never shared: in every interleaving of New and  *)
(* Release calls by concurrent holders, also when a holder calls Release   *)
(* again on a reference it has released, no object is both in errorPool    *)
(* and held by a holder that got it from New and has not released it       *)
(* since, and no two such holders hold the same object.                    *)
(***************************************************************************)
C36_NeverShared ==
  /\ \A h \in Holders : errOwned[h] \cap errPool = {}
  /\ \A g, h \in Holders : g # h => errOwned[g] \cap errOwned[h] = {}

(***************************************************************************)
(* C39 - Pool-hit accounting: between New calls CreateCount equals         *)
(* PoolHits + PoolMisses, and every New call that reuses an object which   *)
(* Release had returned to the pool is counted as a pool hit.              *)
(***************************************************************************)
C39_PoolHitAccounting == []MetricsAddUp /\ [][ReuseIsHit]_vars

(***************************************************************************)
(* C37 - Log level gating: a logger configured with level L among debug,   *)
(* info, warn, error, fatal emits a message of level M only if M >= L; a   *)
(* Debug, Info or Warn call that is suppressed adds one to skipCount and   *)
(* leaves logCount unchanged; after SetLevel(L') the same holds for L'.    *)
(***************************************************************************)
C37_LevelGating == []EmitsAtOrAbove /\ [][SuppressedIsSkipped]_vars

(***************************************************************************)
(* C38 - Derived loggers keep the parent's level: the logger WithComponent,*)
(* WithRequestID, WithTraceID or WithFields returns reports the same       *)
(* IsDebugEnabled, IsInfoEnabled, IsWarnEnabled and IsErrorEnabled values  *)
(* as its parent and emits exactly the messages the parent would emit for  *)
(* the same calls.                                                         *)
(***************************************************************************)
C38_DerivedKeepsLevel ==
  lg.last.op \in WithMethods =>
    LET parent == lg.loggers[lg.last.id]
        child == lg.loggers[Len(lg.loggers)]
    IN
    /\ child.enabled = parent.enabled
    /\ \A m \in Levels : Emits(child, m) = Emits(parent, m)

====
